---- MODULE Spec2Model ----
(***************************************************************************)
(* Document Lifecycle Orchestrator and Query proxy of kb-platform-gateway.  *)
(*                                                                         *)
(* Spec: the request handlers UploadDocument, CompleteUpload, GetDocument   *)
(* and DeleteDocument of internal/api/handlers (the revision that persists *)
(* to the Record Store and talks to Temporal, S3 and Qdrant), the          *)
(* PostgresRepository operations they use, and the Temporal client.  Each  *)
(* handler is one action; the failures of the collaborators are inputs of  *)
(* the action.  `last` records the most recent request: its response and,  *)
(* in order, the collaborator calls the handler made.                      *)
(*                                                                         *)
(* StoreSpec: the same requests served with healthy collaborators, next to *)
(* the repository's UpdateDocumentStatus and UpdateDocument.               *)
(*                                                                         *)
(* QuerySpec: Handlers.Query of the revision with two transports (gRPC     *)
(* first, HTTP as fallback), the forwarding goroutines of the two clients  *)
(* and the handler's streaming loop, one step each.                        *)
(***************************************************************************)
EXTENDS Integers, Sequences, FiniteSets, TLC

\* ---------------------------------------------------------------- bounds
\* Number of calls of generateUUID (hence of document identifiers) explored.
MaxDocs == 2

\* Readings of time.Now() explored.
MaxTime == 2

\* Documents uploaded while the Record Store's update operations are explored.
MaxStoreDocs == 1

\* Chunks in the backend's answer to one query.
MaxChunks == 2

\* Conversations and messages in the Record Store.
MaxConvs == 2
MaxMsgs == 2

\* Conversations created while the Record Store's write operations on
\* conversations and messages are explored.
MaxStoreConvs == 1

DocIds == 1..MaxDocs
Filenames == {"report.pdf", "notes.txt"}
Purposes == {"upload", "index"}

\* ------------------------------------------------------------ empty values
NoId == 0
NoKey == << >>
NoURL == << >>
NoDoc == [absent |-> TRUE]
\* indexed_at IS NULL; every reading of the clock is later.
NoTime == 0

VARIABLES
    docs,        \* Record Store, table documents: id -> row or NoDoc
    uuidCalls,   \* number of identifiers generateUUID has handed out
    wf,          \* Workflow Engine: workflow id -> state of the instance
    startCount,  \* per document id: StartUploadWorkflow calls made so far
    issuedCount, \* per document id: successful upload responses carrying it
    last,        \* the most recent gateway request and its response
    deletedIds,  \* generated ids whose DeleteDocument request answered 204
    clock,       \* what time.Now() returns
    grpcClient,  \* Handlers.GrpcClient: "open", or "nil" when the dial failed
    grpcUp,      \* the backend's gRPC endpoint is reachable
    httpUp,      \* the backend's HTTP endpoint is reachable
    q,           \* the Query call being served
    schema,      \* the revision of schema.sql the database was set up with
    conversations, \* Record Store, table conversations: a set of rows
    messages,    \* Record Store, table messages: a set of rows
    convLast,    \* the most recent conversation or message operation
    server,      \* the server's phase and whether the handlers' clients are closed
    conc         \* Query calls served side by side: per caller the call and its channel

queryVars == <<grpcClient, grpcUp, httpUp, q>>

convVars == <<schema, conversations, messages, convLast>>

docVars == <<docs, uuidCalls, wf, startCount, issuedCount, last, deletedIds, clock>>

vars == <<docs, uuidCalls, wf, startCount, issuedCount, last, deletedIds, clock,
          grpcClient, grpcUp, httpUp, q, schema, conversations, messages, convLast,
          server, conc>>

\* ------------------------------------------------------- pure functions
\* A generator that hands out one fixed identifier on every call.
generateUUIDFixed(n) == 1

\* generateUUID: uuid.New().String(); the n-th call yields an identifier no
\* earlier call yielded.
generateUUID(n) == n + 1

\* The identifiers the first n calls of generateUUID have handed out.
Generated(n) == {generateUUID(k) : k \in 0..(n - 1)}

\* A storage key built from an identifier other than the document's own.
S3KeyOtherId(documentID, filename) == <<"documents", documentID + 1, filename>>

\* s3Key := "documents/" + documentID + "/" + file.Filename, as path segments.
S3Key(documentID, filename) == <<"documents", documentID, filename>>

\* S3Client.GeneratePresignedUploadURL: the presigned URL of a key, or an
\* error and the empty string.
GeneratePresignedUploadURL(key, fail) ==
    IF fail THEN [url |-> NoURL, err |-> TRUE]
    ELSE [url |-> <<"https", key>>, err |-> FALSE]

\* The text of a purpose tag, letter by letter.
PurposeTag(purpose) ==
    IF purpose = "upload" THEN <<"u", "p", "l", "o", "a", "d">>
    ELSE <<"i", "n", "d", "e", "x">>

\* A workflow id that leaves the purpose out.
WorkflowIDWithoutPurpose(purpose, documentID) == <<"-", ToString(documentID)>>

\* fmt.Sprintf("upload-%s", documentID) and fmt.Sprintf("index-%s", ...): the
\* tag, a hyphen and the document id (the id's text as one symbol).
WorkflowID(purpose, documentID) ==
    PurposeTag(purpose) \o <<"-", ToString(documentID)>>

WorkflowIDs == {WorkflowID(p, d) : p \in Purposes, d \in DocIds}

\* The server: its phase ("setup", "serving", "stopped") and whether the
\* Temporal client and the Qdrant client of the handlers have been closed.
Server(phase, temporalClosed, qdrantClosed) ==
    [phase |-> phase, temporalClosed |-> temporalClosed,
     qdrantClosed |-> qdrantClosed]

\* Before SetupRoutes has run.
NotSetUp == Server("setup", FALSE, FALSE)

\* Serving requests with both clients open: main defers their Close to its
\* own return.
Running == Server("serving", FALSE, FALSE)

\* Handlers.Close: close the Temporal client and the Qdrant client.
HandlersClose(s) == [s EXCEPT !.temporalClosed = TRUE, !.qdrantClosed = TRUE]

\* One collaborator call made by a handler.
Call(svc, fn, arg, err) == [svc |-> svc, fn |-> fn, arg |-> arg, err |-> err]

\* The input TemporalClient.StartUploadWorkflow hands to the upload workflow.
UploadWorkflowInput(documentID, s3Key) ==
    [DocumentID |-> documentID, S3Key |-> s3Key]

\* The models.Document a handler writes as JSON (omitted fields are empty).
Body(id, url, key, filename, status) ==
    [id |-> id, upload_url |-> url, s3_key |-> key, filename |-> filename,
     status |-> status]

NoBody == Body(NoId, NoURL, NoKey, "", "")

\* A row of table documents.
Row(filename, status, key, indexed) ==
    [filename |-> filename, status |-> status, s3_key |-> key,
     indexed_at |-> indexed]

\* What a handler leaves behind: the stores, the HTTP status, the error code
\* of the envelope, the JSON body, and the collaborator calls in order.
Outcome(store, engine, id, code, err, body, calls) ==
    [docs |-> store, wf |-> engine, id |-> id, code |-> code, err |-> err,
     body |-> body, calls |-> calls]

\* The status a lookup of the id finds in table documents ("absent": no row).
StatusOf(store, id) ==
    IF id \in DocIds /\ store[id] # NoDoc THEN store[id].status ELSE "absent"

\* The request record kept in `last`: the handler, the document id, the
\* response, the collaborator calls, the status of the row of that id when the
\* request arrived (before) and when the handler returned (after), the state
\* of the id's upload instance on arrival, and the HTTP status of the request
\* just before it when that one was a CompleteUpload of the same id (else 0),
\* and for a lookup whether the store failed while serving it (fault).
Request(op, r, before, inst, repeatOf) ==
    [op |-> op, id |-> r.id, code |-> r.code, err |-> r.err, body |-> r.body,
     calls |-> r.calls, before |-> before, after |-> StatusOf(r.docs, r.id),
     inst |-> inst, repeatOf |-> repeatOf, fault |-> FALSE]

NoRequest ==
    [op |-> "none", id |-> NoId, code |-> 0, err |-> "", body |-> NoBody,
     calls |-> << >>, before |-> "absent", after |-> "absent", inst |-> "none",
     repeatOf |-> 0, fault |-> FALSE]

\* ------------------------------------------------------- Record Store
\* PostgresRepository.CreateDocument: INSERT INTO documents; id is the
\* PRIMARY KEY of the table, so a second row with the same id is refused.
CreateDocument(store, id, row, fail) ==
    IF fail \/ store[id] # NoDoc
    THEN [docs |-> store, err |-> TRUE]
    ELSE [docs |-> [store EXCEPT ![id] = row], err |-> FALSE]

\* A lookup that hands sql.ErrNoRows on to its caller.
GetDocumentErrNoRows(store, id, fail) ==
    IF fail \/ store[id] = NoDoc THEN [doc |-> NoDoc, err |-> TRUE]
    ELSE [doc |-> store[id], err |-> FALSE]

\* PostgresRepository.GetDocument: sql.ErrNoRows gives (nil, nil).
GetDocument(store, id, fail) ==
    IF fail THEN [doc |-> NoDoc, err |-> TRUE]
    ELSE [doc |-> store[id], err |-> FALSE]

\* A deletion that reports success and leaves the row in the table.
RepositoryDeleteDocumentKeepsRow(store, id, fail) ==
    [docs |-> store, err |-> fail]

\* PostgresRepository.DeleteDocument: DELETE FROM documents WHERE id = $1;
\* deleting no row is not an error.
RepositoryDeleteDocument(store, id, fail) ==
    IF fail THEN [docs |-> store, err |-> TRUE]
    ELSE [docs |-> [store EXCEPT ![id] = NoDoc], err |-> FALSE]

\* chk_document_status: CHECK (status IN (...)).
Statuses == {"pending", "indexing", "complete", "failed"}

\* PostgresRepository.UpdateDocumentStatus: UPDATE documents SET status = $1,
\* error_message = $2, indexed_at = $3 WHERE id = $4, where $3 is time.Now()
\* for the statuses complete and failed and NULL for every other status.  The
\* statement has no condition on the row's present status; with no row of the
\* id it updates nothing and returns no error.
UpdateDocumentStatus(store, id, status, now, fail) ==
    LET indexedAt == IF status = "complete" \/ status = "failed"
                     THEN now ELSE NoTime
    IN  IF fail \/ (store[id] # NoDoc /\ status \notin Statuses)
        THEN [docs |-> store, err |-> TRUE]
        ELSE IF store[id] = NoDoc
        THEN [docs |-> store, err |-> FALSE]
        ELSE [docs |-> [store EXCEPT ![id] =
                          [@ EXCEPT !.status = status, !.indexed_at = indexedAt]],
              err |-> FALSE]

\* A piece of SQL text: an assignment "<col> = $<arg>" (kind "clause") or a
\* piece of punctuation (kind "[", "]", "," or " ").
Token(kind, col, arg) == [kind |-> kind, col |-> col, arg |-> arg]

Punct(text) == Token(text, "", 0)

\* setClauses of UpdateDocument: one "<key> = $<n>" per entry of the map, in
\* the order the map iteration yields the keys.
SetClauses(updates, order) ==
    [i \in DOMAIN order |-> Token("clause", order[i], i)]

\* Every order in which the keys of a map can be iterated.
KeyOrders(updates) ==
    {o \in [1..Cardinality(DOMAIN updates) -> DOMAIN updates] :
        \A i \in DOMAIN o, j \in DOMAIN o : i # j => o[i] # o[j]}

\* strings.Join(elems, sep) over tokens.
RECURSIVE Join(_, _)
Join(elems, sep) ==
    IF elems = << >> THEN << >>
    ELSE IF Len(elems) = 1 THEN << elems[1] >>
    ELSE << elems[1], sep >> \o Join(Tail(elems), sep)

\* A SET list written as clauses separated by commas.
JoinCommas(setClauses) == Join(setClauses, Punct(","))

\* fmt.Sprintf("%s", setClauses) of a []string: the elements separated by
\* spaces and enclosed in square brackets.
SprintfSlice(setClauses) ==
    << Punct("[") >> \o Join(setClauses, Punct(" ")) \o << Punct("]") >>

\* What the database accepts after SET: one or more assignments to columns,
\* separated by commas.
ValidSetList(tokens) ==
    /\ Len(tokens) % 2 = 1
    /\ \A i \in DOMAIN tokens :
         IF i % 2 = 1
         THEN /\ tokens[i].kind = "clause"
              /\ tokens[i].col \in {"filename", "status", "s3_key", "indexed_at"}
         ELSE tokens[i] = Punct(",")

\* PostgresRepository.UpdateDocument: UPDATE documents SET <list> WHERE id =
\* $n with the list as fmt.Sprintf("%s", setClauses) writes it.  A statement
\* the database cannot parse, or one that breaks the status CHECK, is an
\* error and changes nothing.
UpdateDocument(store, id, updates, order, fail) ==
    LET setList == SprintfSlice(SetClauses(updates, order))
        row == store[id]
        new == [f \in DOMAIN row |->
                  IF f \in DOMAIN updates THEN updates[f] ELSE row[f]]
    IN  IF fail \/ ~ValidSetList(setList)
        THEN [docs |-> store, err |-> TRUE]
        ELSE IF row = NoDoc
        THEN [docs |-> store, err |-> FALSE]
        ELSE IF new.status \notin Statuses
        THEN [docs |-> store, err |-> TRUE]
        ELSE [docs |-> [store EXCEPT ![id] = new], err |-> FALSE]

\* ----------------------------------------------------- Workflow Engine
Open == {"running", "signaled"}

\* TemporalClient.StartUploadWorkflow: ExecuteWorkflow under the id
\* upload-<documentID>.  An open instance of that id is joined, not duplicated.
StartUploadWorkflow(engine, documentID, fail) ==
    LET w == WorkflowID("upload", documentID) IN
    IF fail THEN [wf |-> engine, err |-> TRUE]
    ELSE [wf |-> IF engine[w] \in Open THEN engine
                 ELSE [engine EXCEPT ![w] = "running"],
          err |-> FALSE]

\* TemporalClient.SignalUploadComplete: SignalWorkflow(upload-<documentID>,
\* "upload-complete").  The engine refuses a signal for an instance that does
\* not exist or has closed; the call can also fail on its own.
SignalUploadComplete(engine, documentID, fail) ==
    LET w == WorkflowID("upload", documentID) IN
    IF fail \/ engine[w] \notin Open THEN [wf |-> engine, err |-> TRUE]
    ELSE [wf |-> [engine EXCEPT ![w] = "signaled"], err |-> FALSE]

\* The upload workflow, run by the engine's workers, comes to its end.
WorkflowClose(w) ==
    /\ wf[w] \in Open
    /\ wf' = [wf EXCEPT ![w] = "closed"]
    /\ UNCHANGED <<docs, uuidCalls, startCount, issuedCount, last, deletedIds, clock, queryVars, convVars, server, conc>>

\* ------------------------------------------------------------ handlers
\* UploadDocument with its error checks switchable: urlAborts and startAborts
\* say whether a failed URL request, a failed workflow start ends the request.
UploadDocumentVariant(store, engine, n, hasFile, filename, s3Fail, dbFail, wfFail, urlAborts, startAborts) ==
    LET documentID == generateUUID(n)
        s3Key == S3Key(documentID, filename)
        presigned == GeneratePresignedUploadURL(s3Key, s3Fail)
        doc == Row(filename, "pending", s3Key, NoTime)
        created == CreateDocument(store, documentID, doc, dbFail)
        started == StartUploadWorkflow(engine, documentID, wfFail)
        c1 == << Call("s3", "GeneratePresignedUploadURL", s3Key, presigned.err) >>
        c2 == Append(c1, Call("repository", "CreateDocument",
                              [id |-> documentID, row |-> doc], created.err))
        c3 == Append(c2, Call("temporal", "StartUploadWorkflow",
                              UploadWorkflowInput(documentID, s3Key), started.err))
    IN  IF ~hasFile
        THEN Outcome(store, engine, NoId, 400, "VALIDATION_ERROR", NoBody, << >>)
        ELSE IF presigned.err /\ urlAborts
        THEN Outcome(store, engine, documentID, 500, "INTERNAL_ERROR", NoBody, c1)
        ELSE IF created.err
        THEN Outcome(store, engine, documentID, 500, "INTERNAL_ERROR", NoBody, c2)
        ELSE IF started.err /\ startAborts
        THEN Outcome(created.docs, engine, documentID, 500, "INTERNAL_ERROR", NoBody, c3)
        ELSE Outcome(created.docs, started.wf, documentID, 200, "",
                     Body(documentID, presigned.url, doc.s3_key, doc.filename,
                          doc.status), c3)

\* UploadDocument that logs a failed URL request and carries on.
UploadDocumentIgnoresURLError(store, engine, n, hasFile, filename, s3Fail, dbFail, wfFail) ==
    UploadDocumentVariant(store, engine, n, hasFile, filename, s3Fail, dbFail,
                          wfFail, FALSE, TRUE)

\* UploadDocument that logs a failed workflow start and answers 200.
UploadDocumentIgnoresStartError(store, engine, n, hasFile, filename, s3Fail, dbFail, wfFail) ==
    UploadDocumentVariant(store, engine, n, hasFile, filename, s3Fail, dbFail,
                          wfFail, TRUE, FALSE)

\* UploadDocument that starts the upload workflow before it writes the row.
UploadDocumentStartsFirst(store, engine, n, hasFile, filename, s3Fail, dbFail, wfFail) ==
    LET documentID == generateUUID(n)
        s3Key == S3Key(documentID, filename)
        presigned == GeneratePresignedUploadURL(s3Key, s3Fail)
        doc == Row(filename, "pending", s3Key, NoTime)
        created == CreateDocument(store, documentID, doc, dbFail)
        started == StartUploadWorkflow(engine, documentID, wfFail)
        c1 == << Call("s3", "GeneratePresignedUploadURL", s3Key, presigned.err) >>
        c2 == Append(c1, Call("temporal", "StartUploadWorkflow",
                              UploadWorkflowInput(documentID, s3Key), started.err))
        c3 == Append(c2, Call("repository", "CreateDocument",
                              [id |-> documentID, row |-> doc], created.err))
    IN  IF ~hasFile
        THEN Outcome(store, engine, NoId, 400, "VALIDATION_ERROR", NoBody, << >>)
        ELSE IF presigned.err
        THEN Outcome(store, engine, documentID, 500, "INTERNAL_ERROR", NoBody, c1)
        ELSE IF started.err
        THEN Outcome(store, engine, documentID, 500, "INTERNAL_ERROR", NoBody, c2)
        ELSE IF created.err
        THEN Outcome(store, started.wf, documentID, 500, "INTERNAL_ERROR", NoBody, c3)
        ELSE Outcome(created.docs, started.wf, documentID, 200, "",
                     Body(documentID, presigned.url, doc.s3_key, doc.filename,
                          doc.status), c3)

\* UploadDocument that asks for the upload URL before it looks at the form
\* file.
UploadDocumentValidatesLate(store, engine, n, hasFile, filename, s3Fail, dbFail, wfFail) ==
    IF ~hasFile
    THEN Outcome(store, engine, NoId, 400, "VALIDATION_ERROR", NoBody,
                 << Call("s3", "GeneratePresignedUploadURL",
                         S3Key(generateUUID(n), ""), s3Fail) >>)
    ELSE UploadDocumentVariant(store, engine, n, hasFile, filename, s3Fail, dbFail,
                               wfFail, TRUE, TRUE)

\* Handlers.UploadDocument, from the form file to the response.
UploadDocumentRun(store, engine, n, hasFile, filename, s3Fail, dbFail, wfFail) ==
    LET documentID == generateUUID(n)
        s3Key == S3Key(documentID, filename)
        presigned == GeneratePresignedUploadURL(s3Key, s3Fail)
        doc == Row(filename, "pending", s3Key, NoTime)
        created == CreateDocument(store, documentID, doc, dbFail)
        started == StartUploadWorkflow(engine, documentID, wfFail)
        c1 == << Call("s3", "GeneratePresignedUploadURL", s3Key, presigned.err) >>
        c2 == Append(c1, Call("repository", "CreateDocument",
                              [id |-> documentID, row |-> doc], created.err))
        c3 == Append(c2, Call("temporal", "StartUploadWorkflow",
                              UploadWorkflowInput(documentID, s3Key), started.err))
    IN  IF ~hasFile
        THEN Outcome(store, engine, NoId, 400, "VALIDATION_ERROR", NoBody, << >>)
        ELSE IF presigned.err
        THEN Outcome(store, engine, documentID, 500, "INTERNAL_ERROR", NoBody, c1)
        ELSE IF created.err
        THEN Outcome(store, engine, documentID, 500, "INTERNAL_ERROR", NoBody, c2)
        ELSE IF started.err
        THEN Outcome(created.docs, engine, documentID, 500, "INTERNAL_ERROR", NoBody, c3)
        ELSE Outcome(created.docs, started.wf, documentID, 200, "",
                     Body(documentID, presigned.url, doc.s3_key, doc.filename,
                          doc.status), c3)

\* DeleteDocument that ends the request at the first failing deletion.
DeleteDocumentAbortsOnFailure(store, engine, documentID, getFail, s3Fail, qdrantFail, dbFail) ==
    LET got == GetDocument(store, documentID, getFail)
        hasObject == got.doc # NoDoc /\ got.doc.s3_key # NoKey
        c1 == << Call("repository", "GetDocument", documentID, got.err) >>
        c2 == IF hasObject
              THEN Append(c1, Call("s3", "DeleteObject", got.doc.s3_key, s3Fail))
              ELSE c1
        c3 == Append(c2, Call("qdrant", "DeleteDocumentVectors", documentID, qdrantFail))
        deleted == RepositoryDeleteDocument(store, documentID, dbFail)
        c4 == Append(c3, Call("repository", "DeleteDocument", documentID, deleted.err))
    IN  IF got.err
        THEN Outcome(store, engine, documentID, 500, "INTERNAL_ERROR", NoBody, c1)
        ELSE IF hasObject /\ s3Fail
        THEN Outcome(store, engine, documentID, 500, "INTERNAL_ERROR", NoBody, c2)
        ELSE IF qdrantFail
        THEN Outcome(store, engine, documentID, 500, "INTERNAL_ERROR", NoBody, c3)
        ELSE IF deleted.err
        THEN Outcome(store, engine, documentID, 500, "INTERNAL_ERROR", NoBody, c4)
        ELSE Outcome(deleted.docs, engine, documentID, 204, "", NoBody, c4)

\* DeleteDocument that goes on to the deletions after a failed lookup.
DeleteDocumentIgnoresLookupError(store, engine, documentID, getFail, s3Fail, qdrantFail, dbFail) ==
    LET got == GetDocument(store, documentID, getFail)
        deleted == RepositoryDeleteDocument(store, documentID, dbFail)
        c1 == << Call("repository", "GetDocument", documentID, got.err) >>
        c2 == IF got.doc # NoDoc /\ got.doc.s3_key # NoKey
              THEN Append(c1, Call("s3", "DeleteObject", got.doc.s3_key, s3Fail))
              ELSE c1
        c3 == Append(c2, Call("qdrant", "DeleteDocumentVectors", documentID, qdrantFail))
        c4 == Append(c3, Call("repository", "DeleteDocument", documentID, deleted.err))
    IN  IF deleted.err
        THEN Outcome(store, engine, documentID, 500, "INTERNAL_ERROR", NoBody, c4)
        ELSE IF got.err
        THEN Outcome(deleted.docs, engine, documentID, 500, "INTERNAL_ERROR", NoBody, c4)
        ELSE Outcome(deleted.docs, engine, documentID, 204, "", NoBody, c4)

\* DeleteDocument that removes the row before the object and the vectors.
DeleteDocumentRowFirst(store, engine, documentID, getFail, s3Fail, qdrantFail, dbFail) ==
    LET got == GetDocument(store, documentID, getFail)
        deleted == RepositoryDeleteDocument(store, documentID, dbFail)
        c1 == << Call("repository", "GetDocument", documentID, got.err) >>
        c2 == Append(c1, Call("repository", "DeleteDocument", documentID, deleted.err))
        c3 == IF got.doc # NoDoc /\ got.doc.s3_key # NoKey
              THEN Append(c2, Call("s3", "DeleteObject", got.doc.s3_key, s3Fail))
              ELSE c2
        c4 == Append(c3, Call("qdrant", "DeleteDocumentVectors", documentID, qdrantFail))
    IN  IF got.err
        THEN Outcome(store, engine, documentID, 500, "INTERNAL_ERROR", NoBody, c1)
        ELSE IF deleted.err
        THEN Outcome(store, engine, documentID, 500, "INTERNAL_ERROR", NoBody, c2)
        ELSE Outcome(deleted.docs, engine, documentID, 204, "", NoBody, c4)

\* Handlers.DeleteDocument: look the row up, delete the object (when the row
\* has a key), the vectors and the row; only the lookup and the row deletion
\* can fail the request.
DeleteDocumentRun(store, engine, documentID, getFail, s3Fail, qdrantFail, dbFail) ==
    LET got == GetDocument(store, documentID, getFail)
        c1 == << Call("repository", "GetDocument", documentID, got.err) >>
        c2 == IF got.doc # NoDoc /\ got.doc.s3_key # NoKey
              THEN Append(c1, Call("s3", "DeleteObject", got.doc.s3_key, s3Fail))
              ELSE c1
        c3 == Append(c2, Call("qdrant", "DeleteDocumentVectors", documentID, qdrantFail))
        deleted == RepositoryDeleteDocument(store, documentID, dbFail)
        c4 == Append(c3, Call("repository", "DeleteDocument", documentID, deleted.err))
    IN  IF got.err
        THEN Outcome(store, engine, documentID, 500, "INTERNAL_ERROR", NoBody, c1)
        ELSE IF deleted.err
        THEN Outcome(store, engine, documentID, 500, "INTERNAL_ERROR", NoBody, c4)
        ELSE Outcome(deleted.docs, engine, documentID, 204, "", NoBody, c4)

\* Handlers.GetDocument: 500 when the lookup fails, 404 when it finds no row,
\* else 200 with the row as rowToDocument renders it.
GetDocumentRun(store, engine, documentID, getFail) ==
    LET got == GetDocument(store, documentID, getFail)
        c1 == << Call("repository", "GetDocument", documentID, got.err) >>
    IN  IF got.err
        THEN Outcome(store, engine, documentID, 500, "INTERNAL_ERROR", NoBody, c1)
        ELSE IF got.doc = NoDoc
        THEN Outcome(store, engine, documentID, 404, "NOT_FOUND", NoBody, c1)
        ELSE Outcome(store, engine, documentID, 200, "",
                     Body(documentID, NoURL, got.doc.s3_key, got.doc.filename,
                          got.doc.status), c1)

\* CompleteUpload that starts the upload workflow again before signalling it.
CompleteUploadRestarts(store, engine, documentID, sigFail) ==
    LET started == StartUploadWorkflow(engine, documentID, FALSE)
        signaled == SignalUploadComplete(started.wf, documentID, sigFail)
        c1 == << Call("temporal", "StartUploadWorkflow",
                      UploadWorkflowInput(documentID, NoKey), started.err),
                 Call("temporal", "SignalUploadComplete", documentID, signaled.err) >>
    IN  IF signaled.err
        THEN Outcome(store, started.wf, documentID, 500, "INTERNAL_ERROR", NoBody, c1)
        ELSE Outcome(store, signaled.wf, documentID, 200, "",
                     Body(documentID, NoURL, NoKey, "", "indexing"), c1)

\* CompleteUpload that answers a refused signal with the stored status.
CompleteUploadIdempotent(store, engine, documentID, sigFail) ==
    LET signaled == SignalUploadComplete(engine, documentID, sigFail)
        c1 == << Call("temporal", "SignalUploadComplete", documentID, signaled.err) >>
    IN  Outcome(store, signaled.wf, documentID, 200, "",
                Body(documentID, NoURL, NoKey, "",
                     IF signaled.err THEN StatusOf(store, documentID)
                     ELSE "indexing"), c1)

\* CompleteUpload that logs a failed signal and answers "indexing" all the same.
CompleteUploadIgnoresSignalError(store, engine, documentID, sigFail) ==
    LET signaled == SignalUploadComplete(engine, documentID, sigFail)
        c1 == << Call("temporal", "SignalUploadComplete", documentID, signaled.err) >>
    IN  Outcome(store, signaled.wf, documentID, 200, "",
                Body(documentID, NoURL, NoKey, "", "indexing"), c1)

\* CompleteUpload that also writes the status it answers with to the row.
CompleteUploadWritesStatus(store, engine, documentID, sigFail) ==
    LET signaled == SignalUploadComplete(engine, documentID, sigFail)
        written == UpdateDocumentStatus(store, documentID, "indexing", NoTime, FALSE)
        c1 == << Call("temporal", "SignalUploadComplete", documentID, signaled.err) >>
    IN  IF signaled.err
        THEN Outcome(store, engine, documentID, 500, "INTERNAL_ERROR", NoBody, c1)
        ELSE Outcome(written.docs, signaled.wf, documentID, 200, "",
                     Body(documentID, NoURL, NoKey, "", "indexing"), c1)

\* Handlers.CompleteUpload: signal the upload workflow of the id and answer
\* with status "indexing".
CompleteUploadRun(store, engine, documentID, sigFail) ==
    LET signaled == SignalUploadComplete(engine, documentID, sigFail)
        c1 == << Call("temporal", "SignalUploadComplete", documentID, signaled.err) >>
    IN  IF signaled.err
        THEN Outcome(store, engine, documentID, 500, "INTERNAL_ERROR", NoBody, c1)
        ELSE Outcome(store, signaled.wf, documentID, 200, "",
                     Body(documentID, NoURL, NoKey, "", "indexing"), c1)

\* The calls of one kind in a handler's call sequence.
CallsOf(calls, fn) == {i \in DOMAIN calls : calls[i].fn = fn}

\* startCount after a request: one more per StartUploadWorkflow call it made.
Counted(count, calls) ==
    [d \in DocIds |->
        count[d] + Cardinality({i \in CallsOf(calls, "StartUploadWorkflow") :
                                  calls[i].arg.DocumentID = d})]

\* The state of the upload instance of a document id.
Instance(engine, id) ==
    IF id \in DocIds THEN engine[WorkflowID("upload", id)] ELSE "none"

\* The failure of a call is an input only of a request that reaches the call:
\* UploadDocument returns at its first failing step and makes no later call,
\* so the failure flags of the calls behind that step are held FALSE.
Reached(ok, f1, f2, f3) ==
    /\ ~ok => ~(f1 \/ f2 \/ f3)
    /\ f1 => ~(f2 \/ f3)
    /\ f2 => ~f3

\* POST /api/v1/documents
UploadDocument ==
    \E hasFile \in BOOLEAN, filename \in Filenames,
       s3Fail \in BOOLEAN, dbFail \in BOOLEAN, wfFail \in BOOLEAN :
        /\ hasFile => uuidCalls < MaxDocs
        /\ Reached(hasFile, s3Fail, dbFail, wfFail)
        \* a closed Temporal client fails every call made on it
        /\ (server.temporalClosed /\ hasFile /\ ~s3Fail /\ ~dbFail) => wfFail
        /\ LET r == UploadDocumentRun(docs, wf, uuidCalls, hasFile, filename,
                                      s3Fail, dbFail, wfFail)
               before == StatusOf(docs, r.id)
           IN  /\ docs' = r.docs
               /\ wf' = r.wf
               /\ uuidCalls' = IF hasFile THEN uuidCalls + 1 ELSE uuidCalls
               /\ startCount' = Counted(startCount, r.calls)
               /\ issuedCount' = IF r.code = 200
                                 THEN [issuedCount EXCEPT ![r.body.id] = @ + 1]
                                 ELSE issuedCount
               /\ last' = Request("UploadDocument", r, before, "none", 0)
               /\ UNCHANGED <<deletedIds, clock, queryVars, convVars, server, conc>>

\* DELETE /api/v1/documents/:id
DeleteDocument ==
    \E documentID \in DocIds, getFail \in BOOLEAN, s3Fail \in BOOLEAN,
       qdrantFail \in BOOLEAN, dbFail \in BOOLEAN :
        /\ getFail => ~(s3Fail \/ qdrantFail \/ dbFail)
        /\ s3Fail => docs[documentID] # NoDoc
        \* a closed Qdrant client fails every call made on it
        /\ (server.qdrantClosed /\ ~getFail) => qdrantFail
        /\ LET r == DeleteDocumentRun(docs, wf, documentID, getFail, s3Fail,
                                      qdrantFail, dbFail)
           IN  /\ docs' = r.docs
               /\ wf' = r.wf
               /\ startCount' = Counted(startCount, r.calls)
               /\ last' = Request("DeleteDocument", r,
                                  StatusOf(docs, documentID), "none", 0)
               /\ deletedIds' = IF r.code = 204 /\ documentID \in Generated(uuidCalls)
                                THEN deletedIds \cup {documentID}
                                ELSE deletedIds
               /\ UNCHANGED <<uuidCalls, issuedCount, clock, queryVars, convVars, server, conc>>

\* POST /api/v1/documents/:id/complete
CompleteUpload ==
    \E documentID \in DocIds, sigFail \in BOOLEAN :
        \* a closed Temporal client fails every call made on it
        /\ server.temporalClosed => sigFail
        /\ LET r == CompleteUploadRun(docs, wf, documentID, sigFail) IN
            /\ docs' = r.docs
            /\ wf' = r.wf
            /\ startCount' = Counted(startCount, r.calls)
            /\ last' = Request("CompleteUpload", r,
                               StatusOf(docs, documentID),
                               Instance(wf, documentID),
                               IF last.op = "CompleteUpload" /\ last.id = documentID
                               THEN last.code ELSE 0)
            /\ UNCHANGED <<uuidCalls, issuedCount, deletedIds, clock, queryVars, convVars, server, conc>>

\* GET /api/v1/documents/:id
HandlersGetDocument ==
    \E documentID \in DocIds, getFail \in BOOLEAN :
        LET r == GetDocumentRun(docs, wf, documentID, getFail)
        IN  /\ last' = [Request("GetDocument", r, StatusOf(docs, documentID),
                                "none", 0) EXCEPT !.fault = getFail]
            /\ UNCHANGED <<docs, wf, uuidCalls, startCount, issuedCount, deletedIds, clock, queryVars, convVars, server, conc>>

\* The statuses and the update maps callers of the repository pass;
\* "archived" is a status the table's CHECK does not list.
StatusInputs == Statuses \cup {"archived"}

OtherKey == <<"documents", NoId, "moved.bin">>

UpdateMaps ==
    {<< >>, [s3_key |-> OtherKey], [status |-> "pending"],
     [status |-> "complete", s3_key |-> OtherKey]}

\* Repository.UpdateDocumentStatus, called by a user of the repository.
RepositoryUpdateDocumentStatus ==
    \E id \in DocIds, status \in StatusInputs, fail \in BOOLEAN :
        LET u == UpdateDocumentStatus(docs, id, status, clock, fail)
            r == Outcome(u.docs, wf, id, 0, IF u.err THEN "ERROR" ELSE "", NoBody,
                         << Call("repository", "UpdateDocumentStatus", status, u.err) >>)
        IN  /\ docs' = u.docs
            /\ last' = Request("UpdateDocumentStatus", r, StatusOf(docs, id),
                               "none", 0)
            /\ UNCHANGED <<wf, uuidCalls, startCount, issuedCount, deletedIds, clock, queryVars, convVars, server, conc>>

\* Repository.UpdateDocument, called by a user of the repository.
RepositoryUpdateDocument ==
    \E id \in DocIds, updates \in UpdateMaps, fail \in BOOLEAN :
      \E order \in KeyOrders(updates) :
        LET u == UpdateDocument(docs, id, updates, order, fail)
            r == Outcome(u.docs, wf, id, 0, IF u.err THEN "ERROR" ELSE "", NoBody,
                         << Call("repository", "UpdateDocument", updates, u.err) >>)
        IN  /\ docs' = u.docs
            /\ last' = Request("UpdateDocument", r, StatusOf(docs, id), "none", 0)
            /\ UNCHANGED <<wf, uuidCalls, startCount, issuedCount, deletedIds, clock, queryVars, convVars, server, conc>>

\* Time passes.
Tick ==
    /\ clock < MaxTime
    /\ clock' = clock + 1
    /\ UNCHANGED <<docs, uuidCalls, wf, startCount, issuedCount, last, deletedIds, queryVars, convVars, server, conc>>

\* ------------------------------------------------------- Query proxy
\* make(chan ..., 100): the capacity of a query's event channel.
ChanCap == 100

\* A pb.QueryResponse the backend sends on the gRPC stream.
Fragment(kind, requestId, content) ==
    [kind |-> kind, requestId |-> requestId, content |-> content]

\* models.SSEEvent.
SSEEvent(type, id, content, code) ==
    [type |-> type, id |-> id, content |-> content, code |-> code]

\* The backend's answer to a query: start, n chunks, end.
Script(n) ==
    << Fragment("start", "req", 0) >>
    \o [i \in 1..n |-> Fragment("chunk", "", i)]
    \o << Fragment("end", "req", 0) >>

\* An answer in which the backend sends, after start, a fragment of a kind
\* the proxy has no case for.
OddScript(n) ==
    << Fragment("start", "req", 0), Fragment("progress", "", 0) >>
    \o [i \in 1..n |-> Fragment("chunk", "", i)]
    \o << Fragment("end", "req", 0) >>

\* The kinds of fragment convertProtoEventToSSE has a case for.
Recognised == {"start", "chunk", "end", "error"}

\* The JSON event the backend writes on the HTTP transport for a fragment.
WireEvent(fragment) ==
    SSEEvent(fragment.kind, fragment.requestId, fragment.content, "")

\* convertProtoEventToSSE.
convertProtoEventToSSE(event) ==
    CASE event.kind = "start" -> SSEEvent("start", event.requestId, 0, "")
      [] event.kind = "chunk" -> SSEEvent("chunk", "", event.content, "")
      [] event.kind = "end" -> SSEEvent("end", event.requestId, 0, "")
      [] event.kind = "error" -> SSEEvent("error", "", 0, "BACKEND")
      [] OTHER -> SSEEvent("unknown", "", 0, "")

\* One piece of the body the backend writes on the HTTP transport: the
\* literal "data: ", the JSON text of an event, or a newline.
Byte(kind, ev) == [kind |-> kind, ev |-> ev]

NL == Byte("\n", SSEEvent("", "", 0, ""))

\* The wire frame of one event: "data: " + JSON + "\n\n".
Frame(ev) == << Byte("data: ", SSEEvent("", "", 0, "")), Byte("json", ev), NL, NL >>

\* bufio.Reader.ReadBytes('\n'): the bytes up to and including the first
\* newline (all of them when there is none).
ReadBytes(bytes) ==
    IF \E i \in DOMAIN bytes : bytes[i] = NL
    THEN SubSeq(bytes, 1, CHOOSE i \in DOMAIN bytes :
                            /\ bytes[i] = NL
                            /\ \A j \in 1..(i - 1) : bytes[j] # NL)
    ELSE bytes

\* bytes.HasSuffix.
HasSuffix(bytes, suffix) ==
    /\ Len(bytes) >= Len(suffix)
    /\ SubSeq(bytes, Len(bytes) - Len(suffix) + 1, Len(bytes)) = suffix

\* The body of the read loop of PythonCoreClient.Query over the bytes that
\* have arrived: every line read is added to the buffer; when the line read
\* ends in "\n\n" the buffer is parsed ("data: " + JSON gives one event) and
\* reset.  Gives the buffer left and the events sent on the channel.
RECURSIVE ReadLoop(_, _, _)
ReadLoop(buffer, events, bytes) ==
    IF bytes = << >> THEN [buffer |-> buffer, events |-> events]
    ELSE LET line == ReadBytes(bytes)
             rest == SubSeq(bytes, Len(line) + 1, Len(bytes))
             data == buffer \o line
             parsed == Len(data) > 1 /\ data[1].kind = "data: "
                       /\ data[2].kind = "json"
                       /\ \A i \in 3..Len(data) : data[i] = NL
         IN  IF HasSuffix(line, << NL, NL >>)
             THEN ReadLoop(<< >>,
                           IF parsed THEN Append(events, data[2].ev) ELSE events,
                           rest)
             ELSE ReadLoop(data, events, rest)

\* ----------------------------------------- Query calls side by side
\* The callers whose Query calls the server serves at the same time.
Callers == {"a", "b"}

\* The text of the i-th chunk of the backend's answer to a caller's query.
Text(c, i) == IF c = "a" THEN i ELSE 0 - i

\* The backend's answer to the query of caller c: start, n chunks, end.
AnswerFor(c, n) ==
    << Fragment("start", c, 0) >>
    \o [i \in 1..n |-> Fragment("chunk", "", Text(c, i))]
    \o << Fragment("end", c, 0) >>

\* One channel for all calls, made once.
OneChan(c) == "a"

\* make(chan ..., 100) in QueryStream and in Query: every call makes the
\* channel its goroutine sends on and its handler ranges over.
MakeChan(c) == c

\* One Query call being served: the transport that answered, the backend's
\* answer and what of it is still to come, the fragments received so far,
\* the read loop's buffer, the channel of the call, whether the goroutine has
\* closed it, the events written to the caller, and whether the caller is
\* slow (it does not read, and the handler's write does not return).
Serving(phase, transport, answer, ch, slow) ==
    [phase |-> phase, transport |-> transport, answer |-> answer,
     script |-> answer, received |-> 0, buffer |-> << >>, ch |-> ch,
     closed |-> FALSE, out |-> << >>, slow |-> slow]

NoCalls ==
    [call |-> [c \in Callers |-> Serving("idle", "none", << >>, c, FALSE)],
     chan |-> [c \in Callers |-> << >>]]

\* NewGrpcCoreClient as NewHandlers uses it: grpc.Dial with WithBlock; when
\* the dial fails the handlers keep a nil client.
NewGrpcCoreClient(up) == IF up THEN "open" ELSE "nil"

\* GrpcCoreClient.QueryStream up to its return: the error of opening the
\* stream.  An unreachable backend shows either here or (lazy) only at the
\* first Recv.
GrpcQueryStream(up, lazy) == [err |-> ~up /\ ~lazy, live |-> up]

\* PythonCoreClient.Query up to its return: the error of httpClient.Do, or
\* of a status other than 200.
CoreClientQuery(up, status) == [err |-> ~up \/ status # 200, live |-> up]

\* A Go int (64 bits) as hi * 2^32 + lo, where lo is the low word read as a
\* signed 32-bit number: every int has exactly one such pair.
GoInt(hi, lo) == [hi |-> hi, lo |-> lo]

\* The conversion int32(topK) of GrpcCoreClient.QueryStream: the low word is
\* kept and the rest is cut off.
Int32(n) == GoInt(0, n.lo)

\* What Handlers.Query has done when it starts streaming or returns.
\* forwarded is the top_k each client it called has put in its request to
\* the backend: the gRPC client after int32(topK), the HTTP client as it is.
Started(valid, topK, tried, errs, transport, live, code, err, header, responses) ==
    [valid |-> valid, topK |-> topK, tried |-> tried, errs |-> errs,
     transport |-> transport, live |-> live, code |-> code, err |-> err,
     header |-> header, responses |-> responses,
     forwarded |-> [i \in DOMAIN tried |->
                      IF tried[i] = "grpc" THEN Int32(topK) ELSE topK]]

\* Handlers.Query that streams from the HTTP client whether or not its call
\* returned an error.
QueryRunStreamsAfterError(valid, topK, client, gUp, lazy, hUp, status) ==
    LET k == IF topK = GoInt(0, 0) THEN GoInt(0, 5) ELSE topK
        g == GrpcQueryStream(gUp, lazy)
        h == CoreClientQuery(hUp, status)
    IN  IF ~valid
        THEN Started(FALSE, topK, << >>, << >>, "none", FALSE, 400,
                     "VALIDATION_ERROR", FALSE, 1)
        ELSE IF client # "nil" /\ ~g.err
        THEN Started(TRUE, k, << "grpc" >>, << FALSE >>, "grpc", g.live, 200, "",
                     TRUE, 0)
        ELSE Started(TRUE, k,
                     IF client # "nil" THEN << "grpc", "http" >> ELSE << "http" >>,
                     IF client # "nil" THEN << TRUE, h.err >> ELSE << h.err >>,
                     "http", h.live /\ ~h.err, 200, "", TRUE, 0)

\* Handlers.Query from the request to the point where it starts streaming or
\* returns: bind the body, default top_k, try the gRPC client when there is
\* one, and the HTTP client when there is none or its call returned an error.
QueryRun(valid, topK, client, gUp, lazy, hUp, status) ==
    LET k == IF topK = GoInt(0, 0) THEN GoInt(0, 5) ELSE topK
        g == GrpcQueryStream(gUp, lazy)
        h == CoreClientQuery(hUp, status)
        tried == IF client # "nil" THEN << "grpc", "http" >> ELSE << "http" >>
        errs == IF client # "nil" THEN << TRUE, h.err >> ELSE << h.err >>
    IN  IF ~valid
        THEN Started(FALSE, topK, << >>, << >>, "none", FALSE, 400,
                     "VALIDATION_ERROR", FALSE, 1)
        ELSE IF client # "nil" /\ ~g.err
        THEN Started(TRUE, k, << "grpc" >>, << FALSE >>, "grpc", g.live, 200, "",
                     TRUE, 0)
        ELSE IF h.err
        THEN Started(TRUE, k, tried, errs, "none", FALSE, 500, "INTERNAL_ERROR",
                     FALSE, 1)
        ELSE Started(TRUE, k, tried, errs, "http", h.live, 200, "", TRUE, 0)

\* The Query call being served: what Handlers.Query did (Started), whether
\* the gRPC endpoint was reachable when the call came in, the fragments the
\* backend still has to send (script) and has sent (emitted), whether its
\* stream broke, the read buffer of the HTTP client, the event channel and
\* whether it is closed, and the events written to the caller with the
\* transport each came from.
QueryCall(phase, st, wasUp, script) ==
    [phase |-> phase, st |-> st, grpcWasUp |-> wasUp, script |-> script,
     emitted |-> << >>, broke |-> FALSE, buffer |-> << >>, chan |-> << >>,
     closed |-> FALSE, out |-> << >>, gone |-> FALSE, goneAt |-> 0,
     asked |-> GoInt(0, 0)]

NoCall ==
    QueryCall("idle", Started(FALSE, GoInt(0, 0), << >>, << >>, "none", FALSE, 0, "", FALSE, 0),
          FALSE, << >>)

\* The handler that goes on to the HTTP client when the gRPC stream is over.
StreamFallsThrough(call, hUp, status) ==
    LET h == CoreClientQuery(hUp, status) IN
    IF call.st.transport = "grpc" /\ ~h.err
    THEN [call EXCEPT !.st.transport = "http", !.st.tried = Append(@, "http"),
                      !.st.live = h.live, !.closed = FALSE, !.broke = FALSE,
                      !.script = Script(1)]
    ELSE [call EXCEPT !.phase = "done"]

\* What the handler does when c.Stream returns: it returns (the gRPC branch
\* by its own return statement, the HTTP branch at the end of the function).
StreamReturn(call, hUp, status) == [call EXCEPT !.phase = "done"]

\* The top_k of a request body: absent or 0, a small number, and 2^32, which
\* the int of QueryRequest holds and an int32 does not.
TopKs == {GoInt(0, 0), GoInt(0, 3), GoInt(1, 0)}

\* POST /api/v1/query up to the start of streaming.  asked keeps the top_k of
\* the request body.
Query ==
    \E valid \in BOOLEAN, topK \in TopKs, n \in 1..MaxChunks,
       lazy \in BOOLEAN, status \in {200, 503} :
      \E script \in {Script(n), OddScript(n)} :
        /\ q.phase \in {"idle", "done"}
        /\ LET st == QueryRun(valid, topK, grpcClient, grpcUp, lazy, httpUp, status)
           IN  q' = [QueryCall(IF st.transport = "none" THEN "done"
                                                          ELSE "streaming",
                               st, grpcUp,
                               IF st.transport # "none" /\ st.live THEN script
                               ELSE << >>)
                     EXCEPT !.asked = topK]
        /\ UNCHANGED <<grpcClient, grpcUp, httpUp, docVars, convVars, server, conc>>

\* A forwarding goroutine that may return, closing the channel, while the
\* backend still has fragments to deliver.
GrpcRecvClosesEarly ==
    /\ q.phase = "streaming"
    /\ q.st.transport = "grpc"
    /\ ~q.closed
    /\ \E outcome \in {"message", "EOF", "error"} :
         CASE outcome = "message" ->
                /\ q.st.live /\ q.script # << >> /\ Len(q.chan) < ChanCap
                /\ q' = [q EXCEPT !.chan = Append(@, Head(q.script)),
                                  !.emitted = Append(@, Head(q.script)),
                                  !.script = Tail(@)]
           [] outcome = "EOF" ->
                /\ q.st.live
                /\ q' = [q EXCEPT !.closed = TRUE]
           [] outcome = "error" ->
                /\ q' = [q EXCEPT !.closed = TRUE, !.broke = TRUE]
    /\ UNCHANGED <<grpcClient, grpcUp, httpUp, docVars, convVars, server, conc>>

\* One turn of the forwarding goroutine of GrpcCoreClient.QueryStream:
\* stream.Recv() gives the next fragment, which is sent on the channel, or
\* io.EOF, or an error; on both of these the goroutine returns and the
\* channel is closed.
GrpcRecv ==
    /\ q.phase = "streaming"
    /\ q.st.transport = "grpc"
    /\ ~q.closed
    /\ \E outcome \in {"message", "EOF", "error"} :
         CASE outcome = "message" ->
                /\ q.st.live /\ q.script # << >> /\ Len(q.chan) < ChanCap
                /\ q' = [q EXCEPT !.chan = Append(@, Head(q.script)),
                                  !.emitted = Append(@, Head(q.script)),
                                  !.script = Tail(@)]
           [] outcome = "EOF" ->
                /\ q.st.live /\ q.script = << >>
                /\ q' = [q EXCEPT !.closed = TRUE]
           [] outcome = "error" ->
                /\ q' = [q EXCEPT !.closed = TRUE, !.broke = TRUE]
    /\ UNCHANGED <<grpcClient, grpcUp, httpUp, docVars, convVars, server, conc>>

\* One turn of the forwarding goroutine of PythonCoreClient.Query: the frame
\* of the backend's next event arrives and goes through the read loop, or the
\* body ends, or reading fails and a STREAM_ERROR event is sent; on both of
\* these the goroutine returns and the channel is closed.
HttpRead ==
    /\ q.phase = "streaming"
    /\ q.st.transport = "http"
    /\ ~q.closed
    /\ \E outcome \in {"frame", "EOF", "error"} :
         CASE outcome = "frame" ->
                /\ q.st.live /\ q.script # << >>
                /\ LET ev == WireEvent(Head(q.script))
                       r == ReadLoop(q.buffer, << >>, Frame(ev))
                   IN  /\ Len(q.chan) + Len(r.events) <= ChanCap
                       /\ q' = [q EXCEPT !.chan = @ \o r.events,
                                         !.buffer = r.buffer,
                                         !.emitted = Append(@, Head(q.script)),
                                         !.script = Tail(@)]
           [] outcome = "EOF" ->
                /\ q.st.live /\ q.script = << >>
                /\ q' = [q EXCEPT !.closed = TRUE]
           [] outcome = "error" ->
                /\ Len(q.chan) < ChanCap
                /\ q' = [q EXCEPT !.chan = Append(@, SSEEvent("error", "", 0,
                                                               "STREAM_ERROR")),
                                  !.closed = TRUE, !.broke = TRUE]
    /\ UNCHANGED <<grpcClient, grpcUp, httpUp, docVars, convVars, server, conc>>

\* One turn of the handler's loop over the channel: c.SSEvent("message", ...)
\* of the event received, converted when it came from the gRPC client.
StreamWrite ==
    /\ q.phase = "streaming"
    /\ q.chan # << >>
    /\ q' = [q EXCEPT !.chan = Tail(@),
                      !.out = Append(@, [src |-> q.st.transport,
                                         ev |-> IF q.st.transport = "grpc"
                                                THEN convertProtoEventToSSE(Head(q.chan))
                                                ELSE Head(q.chan)])]
    /\ UNCHANGED <<grpcClient, grpcUp, httpUp, docVars, convVars, server, conc>>

\* The caller goes away while the step function of c.Stream is in its loop
\* over the channel.  gin looks at the close notification only between
\* steps, c.SSEvent and Flush give no error back, the gRPC stream was opened
\* with context.Background() and the HTTP request with no context: nothing
\* reaches the forwarding goroutine.  goneAt keeps how many fragments had
\* been received from the backend by then.
CallerDisconnect ==
    /\ q.phase = "streaming"
    /\ ~q.gone
    /\ q' = [q EXCEPT !.gone = TRUE, !.goneAt = Len(q.emitted)]
    /\ UNCHANGED <<grpcClient, grpcUp, httpUp, docVars, convVars, server, conc>>

\* The channel is closed and drained: the loop ends and c.Stream returns.
StreamEnd ==
    /\ q.phase = "streaming"
    /\ q.chan = << >>
    /\ q.closed
    /\ \E status \in {200, 503} : q' = StreamReturn(q, httpUp, status)
    /\ UNCHANGED <<grpcClient, grpcUp, httpUp, docVars, convVars, server, conc>>

\* The backend's gRPC endpoint goes away or comes back.
GrpcEndpointChange ==
    /\ grpcUp' = ~grpcUp
    /\ UNCHANGED <<grpcClient, httpUp, q, docVars, convVars, server, conc>>

\* The backend's HTTP endpoint goes away or comes back.
HttpEndpointChange ==
    /\ httpUp' = ~httpUp
    /\ UNCHANGED <<grpcClient, grpcUp, q, docVars, convVars, server, conc>>

\* The Workflow Engine running its instances.
EngineStep ==
    \E w \in WorkflowIDs : WorkflowClose(w)

\* The Record Store, the Workflow Engine and the request record at start.
\* ------------------------------------------- conversations and messages
\* A row of table conversations.
ConversationRow(id, createdAt, updatedAt, messageCount) ==
    [id |-> id, created_at |-> createdAt, updated_at |-> updatedAt,
     message_count |-> messageCount]

\* A row of table messages (content and metadata play no part in any
\* statement below and are left out).
MessageRow(id, conversationID, role, createdAt) ==
    [id |-> id, conversation_id |-> conversationID, role |-> role,
     created_at |-> createdAt]

\* The revisions of schema.sql: the one with the trigger on messages and the
\* column messages.created_at, and the one without the trigger, whose table
\* messages has the column timestamp and no column created_at.
Schemas == {"trigger", "plain"}

\* CHECK (role IN ('user', 'assistant')).
Roles == {"user", "assistant"}

\* What a statement gives: its error and the two tables after it.
Tables(err, convs, msgs) == [err |-> err, conversations |-> convs, messages |-> msgs]

\* PostgresRepository.CreateConversation: INSERT INTO conversations; the
\* count takes its default 0.  A second row with the id violates the primary
\* key.
CreateConversation(convs, msgs, conv) ==
    IF \E r \in convs : r.id = conv.id
    THEN Tables(TRUE, convs, msgs)
    ELSE Tables(FALSE, convs \cup {ConversationRow(conv.id, conv.created_at,
                                                  conv.updated_at, 0)}, msgs)

\* A database set up without the trigger function.
NoTrigger(convs, new, now) == convs

\* The trigger function update_conversation_timestamp, run AFTER INSERT for
\* the row NEW inside the INSERT statement.
update_conversation_timestamp(convs, new, now) ==
    {IF r.id = new.conversation_id
     THEN [r EXCEPT !.updated_at = now, !.message_count = @ + 1]
     ELSE r : r \in convs}

\* CreateMessage on a table messages without the foreign key.
CreateMessageNoForeignKey(sch, convs, msgs, msg, now) ==
    IF \/ sch = "plain"
       \/ \E r \in msgs : r.id = msg.id
       \/ msg.role \notin Roles
    THEN Tables(TRUE, convs, msgs)
    ELSE Tables(FALSE, update_conversation_timestamp(convs, msg, now),
                msgs \cup {msg})

\* PostgresRepository.CreateMessage: INSERT INTO messages (id,
\* conversation_id, role, content, created_at).  The statement fails, and
\* changes nothing, when the table has no column created_at, when the id is
\* taken, when the role is not allowed or when no conversation has the id
\* given; otherwise the row is inserted and the trigger runs in the same
\* statement.
CreateMessage(sch, convs, msgs, msg, now) ==
    IF \/ sch = "plain"
       \/ \E r \in msgs : r.id = msg.id
       \/ msg.role \notin Roles
       \/ ~\E r \in convs : r.id = msg.conversation_id
    THEN Tables(TRUE, convs, msgs)
    ELSE Tables(FALSE, update_conversation_timestamp(convs, msg, now),
                msgs \cup {msg})

\* PostgresRepository.DeleteMessage: DELETE FROM messages WHERE id = $1.
DeleteMessage(convs, msgs, id) ==
    Tables(FALSE, convs, {r \in msgs : r.id # id})

\* PostgresRepository.UpdateMessageCount: UPDATE conversations SET
\* message_count = $1, updated_at = $2 WHERE id = $3.
UpdateMessageCount(convs, msgs, id, count, now) ==
    Tables(FALSE,
           {IF r.id = id THEN [r EXCEPT !.message_count = count, !.updated_at = now]
            ELSE r : r \in convs},
           msgs)

\* PostgresRepository.GetConversation: the row with the id; sql.ErrNoRows
\* gives (nil, nil), here no row and no error.
GetConversation(convs, id, fail) ==
    IF fail THEN [err |-> TRUE, rows |-> << >>]
    ELSE IF \E r \in convs : r.id = id
    THEN [err |-> FALSE, rows |-> << CHOOSE r \in convs : r.id = id >>]
    ELSE [err |-> FALSE, rows |-> << >>]

\* The orders in which ORDER BY created_at can give the rows: ascending, or
\* descending, with rows of equal created_at in any order.
Orderings(rows, ascending) ==
    {s \in [1..Cardinality(rows) -> rows] :
        /\ \A i, j \in DOMAIN s : i # j => s[i] # s[j]
        /\ \A i, j \in DOMAIN s :
             i < j => IF ascending THEN s[i].created_at <= s[j].created_at
                      ELSE s[i].created_at >= s[j].created_at}

\* LIMIT limit OFFSET offset over the ordered rows.
Page(s, limit, offset) ==
    IF offset >= Len(s) THEN << >>
    ELSE SubSeq(s, offset + 1, IF offset + limit < Len(s) THEN offset + limit
                               ELSE Len(s))

\* PostgresRepository.GetMessagesByConversationID: the results the SELECT
\* can give; it fails when the table has no column created_at.
GetMessagesByConversationID(sch, msgs, conversationID, limit, offset) ==
    IF sch = "plain" THEN {[err |-> TRUE, rows |-> << >>]}
    ELSE {[err |-> FALSE, rows |-> Page(s, limit, offset)] :
            s \in Orderings({r \in msgs : r.conversation_id = conversationID}, TRUE)}

\* PostgresRepository.ListConversations: the results the SELECT can give.
ListConversations(convs, limit, offset) ==
    {[err |-> FALSE, rows |-> Page(s, limit, offset)] : s \in Orderings(convs, FALSE)}

\* A query parameter of the request: absent (c.Query gives ""), a text that
\* is no number, or the decimal text of n.
Param(kind, n) == [kind |-> kind, n |-> n]

\* strconv.Atoi.
Atoi(str) == [n |-> IF str.kind = "number" THEN str.n ELSE 0,
              err |-> str.kind # "number"]

\* A handler that takes every number given as the limit.
LimitUnchecked(limitStr) ==
    IF limitStr.kind # "absent" /\ ~Atoi(limitStr).err
    THEN Atoi(limitStr).n
    ELSE 50

\* The limit the handlers use: 50, replaced by the parameter when it is
\* there, is a number and is in 1..100.
Limit(limitStr) ==
    IF limitStr.kind # "absent" /\ ~Atoi(limitStr).err
       /\ Atoi(limitStr).n > 0 /\ Atoi(limitStr).n <= 100
    THEN Atoi(limitStr).n
    ELSE 50

\* The offset the handlers use: 0, replaced by the parameter when it is
\* there, is a number and is not negative.
Offset(offsetStr) ==
    IF offsetStr.kind # "absent" /\ ~Atoi(offsetStr).err /\ Atoi(offsetStr).n >= 0
    THEN Atoi(offsetStr).n
    ELSE 0

\* The conversation or message operation made last: its name, the id it was
\* about, its error, for a listing the parameters of the request, the
\* limit and offset used and the rows returned, and for a lookup the row
\* returned and whether the store failed while serving it (fault).
ConvOp(op, id, err, limitStr, offsetStr, limit, offset, rows) ==
    [op |-> op, id |-> id, err |-> err, limitStr |-> limitStr,
     offsetStr |-> offsetStr, limit |-> limit, offset |-> offset, rows |-> rows,
     fault |-> FALSE]

\* An operation that lists nothing.
Wrote(op, id, err) ==
    ConvOp(op, id, err, Param("absent", 0), Param("absent", 0), 0, 0, << >>)

\* The ids requests name for a conversation and for a message, the roles and
\* the counts and the list parameters they carry.
ConvIds == 1..MaxConvs

MsgIds == 1..MaxMsgs

RoleInputs == {"user", "system"}

CountInputs == {0}

LimitStrs == {Param("absent", 0), Param("text", 0), Param("number", 0), Param("number", 1), Param("number", 100), Param("number", 101)}

OffsetStrs == {Param("absent", 0), Param("text", 0), Param("number", 0 - 1), Param("number", 1)}

\* The pairs of limit and offset of the list requests: every limit with no
\* offset, and every offset with limit=1.
ListParams == (LimitStrs \X {Param("absent", 0)}) \cup ({Param("number", 1)} \X OffsetStrs)

\* POST /api/v1/conversations: a new id, created_at = updated_at = now.
HandlersCreateConversation ==
    /\ uuidCalls < MaxConvs
    /\ LET id == generateUUID(uuidCalls)
           r == CreateConversation(conversations, messages,
                                   ConversationRow(id, clock, clock, 0))
       IN  /\ conversations' = r.conversations
           /\ messages' = r.messages
           /\ convLast' = Wrote("CreateConversation", id, r.err)
    /\ uuidCalls' = uuidCalls + 1
    /\ UNCHANGED <<docs, wf, startCount, issuedCount, last, deletedIds, clock,
                   schema, queryVars, server, conc>>

\* MessageRepository.CreateMessage called with a message of the caller's
\* making, its CreatedAt being the caller's time.Now().  convLast keeps the
\* conversation the message named.
RepositoryCreateMessage ==
    \E id \in MsgIds, conv \in ConvIds, role \in RoleInputs :
        /\ \A c \in conversations : c.message_count < MaxMsgs
        /\ LET r == CreateMessage(schema, conversations, messages,
                                  MessageRow(id, conv, role, clock), clock)
           IN  /\ conversations' = r.conversations
               /\ messages' = r.messages
               /\ convLast' = Wrote("CreateMessage", conv, r.err)
        /\ UNCHANGED <<docVars, schema, queryVars, server, conc>>

\* MessageRepository.DeleteMessage.
RepositoryDeleteMessage ==
    \E id \in MsgIds :
        /\ LET r == DeleteMessage(conversations, messages, id)
           IN  /\ conversations' = r.conversations
               /\ messages' = r.messages
               /\ convLast' = Wrote("DeleteMessage", 0, r.err)
        /\ UNCHANGED <<docVars, schema, queryVars, server, conc>>

\* ConversationRepository.UpdateMessageCount.
RepositoryUpdateMessageCount ==
    \E id \in ConvIds, count \in CountInputs :
        /\ LET r == UpdateMessageCount(conversations, messages, id, count, clock)
           IN  /\ conversations' = r.conversations
               /\ messages' = r.messages
               /\ convLast' = Wrote("UpdateMessageCount", 0, r.err)
        /\ UNCHANGED <<docVars, schema, queryVars, server, conc>>

\* ConversationRepository.GetConversation.
RepositoryGetConversation ==
    \E id \in ConvIds, fail \in BOOLEAN :
        /\ LET r == GetConversation(conversations, id, fail)
           IN  convLast' = [ConvOp("GetConversation", id, r.err, Param("absent", 0),
                                   Param("absent", 0), 0, 0, r.rows)
                            EXCEPT !.fault = fail]
        /\ UNCHANGED <<docVars, schema, conversations, messages, queryVars, server, conc>>

\* GET /api/v1/conversations/:id/messages.
HandlersGetConversationMessages ==
    \E conversationID \in ConvIds, params \in ListParams :
      \E r \in GetMessagesByConversationID(schema, messages, conversationID,
                                           Limit(params[1]), Offset(params[2])) :
      LET limitStr == params[1]
          offsetStr == params[2]
      IN
        /\ convLast' = ConvOp("GetConversationMessages", conversationID, r.err,
                              limitStr, offsetStr, Limit(limitStr),
                              Offset(offsetStr), r.rows)
        /\ UNCHANGED <<docVars, schema, conversations, messages, queryVars, server, conc>>

\* GET /api/v1/conversations.
HandlersListConversations ==
    \E params \in ListParams :
      \E r \in ListConversations(conversations, Limit(params[1]), Offset(params[2])) :
      LET limitStr == params[1]
          offsetStr == params[2]
      IN
        /\ convLast' = ConvOp("ListConversations", 0, r.err, limitStr, offsetStr,
                              Limit(limitStr), Offset(offsetStr), r.rows)
        /\ UNCHANGED <<docVars, schema, conversations, messages, queryVars, server, conc>>

InitDocuments ==
    /\ docs = [d \in DocIds |-> NoDoc]
    /\ uuidCalls = 0
    /\ wf = [w \in WorkflowIDs |-> "none"]
    /\ startCount = [d \in DocIds |-> 0]
    /\ issuedCount = [d \in DocIds |-> 0]
    /\ last = NoRequest
    /\ deletedIds = {}
    /\ clock = 1

\* The query proxy after NewHandlers, run with the backend's gRPC endpoint
\* reachable or not.
InitQuery(up) ==
    /\ grpcUp = up
    /\ grpcClient = NewGrpcCoreClient(up)
    /\ httpUp = TRUE
    /\ q = NoCall
    /\ conc = NoCalls

InitConversations(schemas) ==
    /\ schema \in schemas
    /\ conversations = {}
    /\ messages = {}
    /\ convLast = Wrote("none", 0, FALSE)

Init ==
    /\ InitDocuments /\ InitQuery(TRUE) /\ InitConversations({"trigger"})
    /\ server = Running

Next ==
    \/ UploadDocument
    \/ DeleteDocument
    \/ CompleteUpload
    \/ HandlersGetDocument
    \/ EngineStep

Spec == Init /\ [][Next]_vars

\* No collaborator call of the request being served returns an error.
Healthy == \A i \in DOMAIN last'.calls : ~last'.calls[i].err

\* The gateway's requests that write or signal, served with every
\* collaborator healthy.
HealthyUploadDocument == uuidCalls < MaxStoreDocs /\ UploadDocument /\ Healthy

HealthyCompleteUpload == CompleteUpload /\ Healthy

HealthyDeleteDocument == DeleteDocument /\ Healthy

\* The query proxy: Handlers.Query, the forwarding goroutines of its two
\* clients, and the backend's endpoints coming and going.
QueryInit ==
    /\ InitDocuments
    /\ \E up \in BOOLEAN : InitQuery(up)
    /\ InitConversations({"trigger"})
    /\ server = Running

QueryNext ==
    \/ Query
    \/ GrpcRecv
    \/ HttpRead
    \/ StreamWrite
    \/ StreamEnd
    \/ CallerDisconnect
    \/ GrpcEndpointChange
    \/ HttpEndpointChange

QuerySpec == QueryInit /\ [][QueryNext]_vars

\* The query proxy with the handler's goroutine scheduled: a loop over the
\* channel that can take its next turn, or end, does so.
QueryFairSpec ==
    QueryInit /\ [][QueryNext]_vars /\ WF_vars(StreamWrite) /\ WF_vars(StreamEnd)

\* The Record Store under those requests and under the update operations the
\* repository offers besides.
StoreNext ==
    \/ HealthyUploadDocument
    \/ HealthyCompleteUpload
    \/ HealthyDeleteDocument
    \/ RepositoryUpdateDocumentStatus
    \/ RepositoryUpdateDocument
    \/ Tick

StoreSpec == Init /\ [][StoreNext]_vars

\* The life of the server: SetupRoutes builds the handlers and registers
\* them, the server then serves the document requests until it is shut down.
\* routes.SetupRoutes: NewHandlers creates the clients (a failure panics);
\* the deferred h.Close() runs when SetupRoutes returns, before any request.
SetupRoutes ==
    /\ server.phase = "setup"
    /\ \E newFail \in BOOLEAN :
         server' = IF newFail
                   THEN Server("stopped", FALSE, FALSE)
                   ELSE HandlersClose(Server("serving", FALSE, FALSE))
    /\ UNCHANGED <<docVars, queryVars, convVars, conc>>

\* main: an interrupt ends the serving; the deferred closes run.
ServerShutdown ==
    /\ server.phase = "serving"
    /\ server' = HandlersClose([server EXCEPT !.phase = "stopped"])
    /\ UNCHANGED <<docVars, queryVars, convVars, conc>>

ServeUploadDocument == server.phase = "serving" /\ UploadDocument

ServeDeleteDocument == server.phase = "serving" /\ DeleteDocument

ServeCompleteUpload == server.phase = "serving" /\ CompleteUpload

ServerInit ==
    /\ InitDocuments /\ InitQuery(TRUE) /\ InitConversations({"trigger"})
    /\ server = NotSetUp

ServerNext ==
    \/ SetupRoutes
    \/ ServeUploadDocument
    \/ ServeDeleteDocument
    \/ ServeCompleteUpload
    \/ ServerShutdown

ServerSpec == ServerInit /\ [][ServerNext]_vars

\* Query calls of several callers served at the same time, each by its own
\* handler goroutine and forwarding goroutine.
\* Handlers.Query of caller c up to the start of streaming.  A slow caller is
\* sent an answer longer than a channel holds.
ConcQuery(c) ==
    /\ conc.call[c].phase \in {"idle", "done"}
    /\ \E transport \in {"grpc", "http"}, slow \in BOOLEAN :
        \E n \in (1..MaxChunks) \cup (IF slow /\ transport = "grpc" THEN {ChanCap} ELSE {}) :
          conc' = [call |-> [conc.call EXCEPT ![c] =
                               Serving("streaming", transport, AnswerFor(c, n),
                                       MakeChan(c), slow)],
                   chan |-> [conc.chan EXCEPT ![MakeChan(c)] = << >>]]
    /\ UNCHANGED <<docVars, queryVars, convVars, server>>

\* The forwarding goroutine of caller c's call receives the next fragment and
\* sends what it makes of it on the call's channel; the send waits while the
\* channel is full.
ConcForward(c) ==
    LET r == conc.call[c]
        read == ReadLoop(r.buffer, << >>, Frame(WireEvent(Head(r.script))))
        events == IF r.transport = "grpc" THEN << Head(r.script) >> ELSE read.events
    IN  /\ r.phase = "streaming" /\ ~r.closed /\ r.script # << >>
        /\ Len(conc.chan[r.ch]) + Len(events) <= ChanCap
        /\ conc' = [call |-> [conc.call EXCEPT ![c] =
                                [r EXCEPT !.script = Tail(@),
                                          !.received = @ + 1,
                                          !.buffer = IF r.transport = "grpc"
                                                     THEN @ ELSE read.buffer]],
                     chan |-> [conc.chan EXCEPT ![r.ch] = @ \o events]]
        /\ UNCHANGED <<docVars, queryVars, convVars, server>>

\* The backend stream of caller c's call ends or fails: the goroutine
\* returns (the HTTP one after sending STREAM_ERROR for a failure) and its
\* deferred close closes the channel.
ConcStreamOver(c) ==
    LET r == conc.call[c] IN
    /\ r.phase = "streaming" /\ ~r.closed
    /\ \E outcome \in {"EOF", "error"} :
         /\ outcome = "EOF" => r.script = << >>
         /\ LET events == IF outcome = "error" /\ r.transport = "http"
                          THEN << SSEEvent("error", "", 0, "STREAM_ERROR") >>
                          ELSE << >>
            IN  /\ Len(conc.chan[r.ch]) + Len(events) <= ChanCap
                /\ conc' = [call |-> [conc.call EXCEPT ![c] =
                                        [r EXCEPT !.closed = TRUE]],
                             chan |-> [conc.chan EXCEPT ![r.ch] = @ \o events]]
    /\ UNCHANGED <<docVars, queryVars, convVars, server>>

\* One turn of the loop of caller c's handler over the call's channel.
ConcWrite(c) ==
    LET r == conc.call[c]
        event == Head(conc.chan[r.ch])
    IN  /\ r.phase = "streaming" /\ ~r.slow
        /\ conc.chan[r.ch] # << >>
        /\ conc' = [call |-> [conc.call EXCEPT ![c] =
                                [r EXCEPT !.out = Append(@,
                                     IF r.transport = "grpc"
                                     THEN convertProtoEventToSSE(event)
                                     ELSE event)]],
                     chan |-> [conc.chan EXCEPT ![r.ch] = Tail(@)]]
        /\ UNCHANGED <<docVars, queryVars, convVars, server>>

\* The channel of caller c's call is closed and drained: the handler returns.
ConcEnd(c) ==
    LET r == conc.call[c] IN
    /\ r.phase = "streaming" /\ r.closed /\ ~r.slow
    /\ conc.chan[r.ch] = << >>
    /\ conc' = [conc EXCEPT !.call[c].phase = "done"]
    /\ UNCHANGED <<docVars, queryVars, convVars, server>>

ConcurrentNext ==
    \/ \E c \in Callers : ConcQuery(c)
    \/ \E c \in Callers : ConcForward(c)
    \/ \E c \in Callers : ConcStreamOver(c)
    \/ \E c \in Callers : ConcWrite(c)
    \/ \E c \in Callers : ConcEnd(c)

ConcurrentSpec == Init /\ [][ConcurrentNext]_vars

\* The two requests that validate their input, as they come in.
ValidationNext ==
    \/ UploadDocument
    \/ Query

ValidationSpec == QueryInit /\ [][ValidationNext]_vars

\* The lookups by id, among the requests that create what they look up.
LookupNext ==
    \/ UploadDocument
    \/ HandlersGetDocument
    \/ HandlersCreateConversation
    \/ RepositoryGetConversation

LookupSpec == Init /\ [][LookupNext]_vars

\* The Record Store's conversations and messages under the operations the
\* repository offers on them, on a database set up with either revision of
\* the schema.
ConvInit ==
    /\ InitDocuments /\ InitQuery(TRUE) /\ InitConversations(Schemas)
    /\ server = Running

StoreCreateConversation == uuidCalls < MaxStoreConvs /\ HandlersCreateConversation

ConvNext ==
    \/ StoreCreateConversation
    \/ RepositoryCreateMessage
    \/ RepositoryDeleteMessage
    \/ RepositoryUpdateMessageCount
    \/ Tick

ConvSpec == ConvInit /\ [][ConvNext]_vars

\* The tables after a history of the gateway: k conversations created in the
\* order of their ids at the times createdAt, then the messages 1..j appended
\* in the order of their times, message i to conversation conv[i] at the time
\* at[i].  Each conversation's count is the number of its messages and its
\* updated_at the time of the last of them.
History(k, createdAt, j, conv, at) ==
    LET of(c) == {i \in 1..j : conv[i] = c}
        latest(c) == CHOOSE t \in {createdAt[c]} \cup {at[i] : i \in of(c)} :
                        \A u \in {createdAt[c]} \cup {at[i] : i \in of(c)} : u <= t
    IN  Tables(FALSE,
               {ConversationRow(c, createdAt[c], latest(c), Cardinality(of(c))) :
                    c \in 1..k},
               {MessageRow(i, conv[i], "user", at[i]) : i \in 1..j})

\* The list requests on the tables a history has left.
ListInit ==
    /\ docs = [d \in DocIds |-> NoDoc]
    /\ wf = [w \in WorkflowIDs |-> "none"]
    /\ startCount = [d \in DocIds |-> 0]
    /\ issuedCount = [d \in DocIds |-> 0]
    /\ last = NoRequest
    /\ deletedIds = {}
    /\ clock = MaxTime
    /\ InitQuery(TRUE)
    /\ server = Running
    /\ convLast = Wrote("none", 0, FALSE)
    /\ \E k \in 0..MaxConvs, j \in 0..MaxMsgs :
         \E createdAt \in [1..k -> 1..MaxTime], conv \in [1..j -> 1..k],
            at \in [1..j -> 1..MaxTime] :
            /\ \A c, d \in 1..k : c < d => createdAt[c] <= createdAt[d]
            /\ \A i \in 1..j : createdAt[conv[i]] <= at[i]
            /\ \A h, i \in 1..j : h < i => at[h] <= at[i]
            /\ uuidCalls = k
            /\ conversations = History(k, createdAt, j, conv, at).conversations
            /\ messages = History(k, createdAt, j, conv, at).messages
            /\ schema \in IF j = 0 THEN Schemas ELSE {"trigger"}

ListNext ==
    \/ HandlersGetConversationMessages
    \/ HandlersListConversations

ListSpec == ListInit /\ [][ListNext]_vars

\* ================================================================ claims
\* The last request made at least one call of the kind.
Made(fn) == CallsOf(last.calls, fn) # {}

\* A call of the kind made by the last request returned an error.
Failed(fn) == \E i \in CallsOf(last.calls, fn) : last.calls[i].err

C2_DeleteUnknownIsNotFound ==
    (last.op = "DeleteDocument" /\ ~Failed("GetDocument") /\ last.before = "absent")
    => /\ last.code = 404
       /\ ~Made("DeleteObject")
       /\ ~Made("DeleteDocumentVectors")

C5_CompleteUnknownIsNotFound ==
    (last.op = "CompleteUpload" /\ last.before = "absent")
    => /\ last.code = 404
       /\ ~Made("SignalUploadComplete")

C7_DocumentIdsNeverReused ==
    \A d \in DocIds : issuedCount[d] <= 1

\* C7 witness: two successful UploadBegin calls have returned two identifiers.
C7_Witness ==
    \E d1 \in DocIds, d2 \in DocIds :
        /\ d1 # d2
        /\ issuedCount[d1] = 1
        /\ issuedCount[d2] = 1

\* C8: a successful UploadBegin response has a non-empty id, a non-empty
\* upload_url, status "pending" and the s3_key documents/<id>/<filename> of
\* its own id, and the row written has that id and that key.
C8_UploadResponseShape ==
    (last.op = "UploadDocument" /\ last.code = 200)
    => /\ last.body.id # NoId
       /\ last.body.upload_url # NoURL
       /\ last.body.status = "pending"
       /\ last.body.s3_key = <<"documents", last.body.id, last.body.filename>>
       /\ \E i \in CallsOf(last.calls, "CreateDocument") :
            /\ last.calls[i].arg.id = last.body.id
            /\ last.calls[i].arg.row.s3_key = last.body.s3_key
            /\ last.calls[i].arg.row.status = "pending"

\* C8 witness: the second successful upload, of the other filename.
C8_Witness ==
    /\ last.op = "UploadDocument"
    /\ last.code = 200
    /\ last.body.id = 2
    /\ last.body.s3_key = <<"documents", 2, "notes.txt">>

\* C9: an UploadBegin whose upload URL cannot be issued answers an error,
\* writes no row and starts no workflow; one whose row cannot be written
\* answers an error and starts no workflow.
C9_UploadFailsBeforeSideEffects ==
    last.op = "UploadDocument" =>
        /\ Failed("GeneratePresignedUploadURL")
           => /\ last.code = 500
              /\ ~Made("CreateDocument")
              /\ last.after = "absent"
              /\ ~Made("StartUploadWorkflow")
              /\ startCount[last.id] = 0
        /\ Failed("CreateDocument")
           => /\ last.code = 500
              /\ ~Made("StartUploadWorkflow")
              /\ startCount[last.id] = 0

\* C9 witness: an upload refused because the row could not be written.
C9_Witness ==
    /\ last.op = "UploadDocument"
    /\ Failed("CreateDocument")
    /\ last.code = 500
    /\ last.after = "absent"

\* C10: when the row was written and the workflow start then fails, the
\* caller gets an error without an upload URL and the row is pending (or
\* absent) when the request returns.
C10_StartFailureSurfaces ==
    (last.op = "UploadDocument" /\ Made("CreateDocument")
       /\ ~Failed("CreateDocument") /\ Failed("StartUploadWorkflow"))
    => /\ last.code = 500
       /\ last.body.upload_url = NoURL
       /\ last.after \in {"absent", "pending"}

\* C10 witness: the start failed after the row was written; the row stays.
C10_Witness ==
    /\ last.op = "UploadDocument"
    /\ Failed("StartUploadWorkflow")
    /\ last.code = 500
    /\ last.after = "pending"
    /\ docs[last.id] # NoDoc

\* C11: once DeleteDocument has answered 204 for a generated identifier, the
\* row of that identifier is gone for good: every later GetDocument of it,
\* whatever was done to other documents in between, answers 404 NOT_FOUND
\* when the Record Store answers the lookup, and never 200.
C11_DeletedStaysNotFound ==
    /\ \A d \in deletedIds : docs[d] = NoDoc
    /\ (last.op = "GetDocument" /\ last.id \in deletedIds)
       => /\ last.code # 200
          /\ last.body = NoBody
          /\ ~Failed("GetDocument") => (last.code = 404 /\ last.err = "NOT_FOUND")

\* C11 witness: GetDocument of a deleted document answers 404 while another
\* document, uploaded and completed, is still there.
C11_Witness ==
    /\ last.op = "GetDocument"
    /\ last.id \in deletedIds
    /\ last.code = 404
    /\ \E d \in DocIds \ {last.id} :
          docs[d] # NoDoc /\ Instance(wf, d) = "signaled"

\* Both before and after the step the table has a row of the id.
RowKept(d) == docs[d] # NoDoc /\ docs'[d] # NoDoc

Terminal == {"complete", "failed"}

\* C12 (as claimed): under every operation of the gateway and of the Record
\* Store the status of a row stays as it is or takes one step along
\* pending -> indexing -> {complete, failed}; it never goes back and never
\* leaves complete or failed.
C12_StatusOnlyMovesForward ==
    [][\A d \in DocIds :
         RowKept(d) =>
            \/ docs'[d].status = docs[d].status
            \/ docs[d].status = "pending" /\ docs'[d].status = "indexing"
            \/ docs[d].status = "indexing" /\ docs'[d].status \in Terminal]_vars

\* C13 (as claimed): indexed_at of a row is set at the step that takes its
\* status to complete or failed, and once set no step changes or clears it.
C13_IndexedAtSetOnce ==
    [][\A d \in DocIds :
         RowKept(d) =>
            /\ docs[d].indexed_at # NoTime
               => docs'[d].indexed_at = docs[d].indexed_at
            /\ (docs[d].indexed_at = NoTime /\ docs'[d].indexed_at # NoTime)
               => (docs[d].status \notin Terminal /\ docs'[d].status \in Terminal)]_vars

\* C14: a row is created with the storage key documents/<id>/<filename> of
\* its own id, and no operation of the gateway or of the Record Store gives
\* the row another key afterwards.
C14_StorageKeyNeverChanges ==
    [][\A d \in DocIds :
         /\ (docs[d] = NoDoc /\ docs'[d] # NoDoc)
            => docs'[d].s3_key = <<"documents", d, docs'[d].filename>>
         /\ RowKept(d) => docs'[d].s3_key = docs[d].s3_key]_vars

\* C14 witness: UpdateDocument was asked to set s3_key on a row whose status
\* UpdateDocumentStatus had set; the row still has the key of its creation.
C14_Witness ==
    /\ last.op = "UpdateDocument"
    /\ last.before = "complete"
    /\ "s3_key" \in DOMAIN last.calls[1].arg
    /\ docs[last.id].s3_key = <<"documents", last.id, docs[last.id].filename>>

\* The workflow id of the upload instance of the last request's document.
Target == WorkflowID("upload", last'.id)

\* C15: the workflow id is a function of purpose and document id that gives
\* different ids to different documents and to the two purposes of one
\* document; a second start under an id joins the instance the first start
\* made; UploadDocument touches no instance but upload-<its id>, and an
\* accepted CompleteUpload of d signals upload-<d>, the instance UploadDocument
\* started for d, and no other.
C15_WorkflowIdIsPerPurposeAndDocument ==
    [][/\ \A p1 \in Purposes, p2 \in Purposes, d1 \in DocIds, d2 \in DocIds :
            WorkflowID(p1, d1) = WorkflowID(p2, d2) => (p1 = p2 /\ d1 = d2)
       /\ \A d \in DocIds :
            LET once == StartUploadWorkflow(wf, d, FALSE).wf
            IN  /\ StartUploadWorkflow(once, d, FALSE).wf = once
                /\ \A w \in WorkflowIDs \ {WorkflowID("upload", d)} : once[w] = wf[w]
       /\ UploadDocument
            => \A w \in WorkflowIDs :
                 wf'[w] # wf[w] => (w = Target /\ wf'[w] = "running")
       /\ CompleteUpload
            => /\ \A w \in WorkflowIDs \ {Target} : wf'[w] = wf[w]
               /\ last'.code = 200
                  => /\ wf[Target] \in Open
                     /\ wf'[Target] = "signaled"
                     /\ startCount[last'.id] = 1]_vars

\* C15 witness: the second document's upload was signalled; its instance is
\* signaled, the first document's instance is still running and no index
\* instance was touched.
C15_Witness ==
    /\ last.op = "CompleteUpload"
    /\ last.code = 200
    /\ last.id = 2
    /\ wf[WorkflowID("upload", 2)] = "signaled"
    /\ wf[WorkflowID("upload", 1)] = "running"
    /\ wf[WorkflowID("index", 2)] = "none"

\* The kinds of the events written to the caller, in order.
OutTypes == [i \in DOMAIN q.out |-> q.out[i].ev.type]

\* C16 (as claimed): when opening the gRPC stream fails and the call goes to
\* the HTTP client, whose backend then sends start, chunks, end and closes
\* the body, the caller is written exactly those events, in order.
C16_FallbackDeliversSecondaryStream ==
    (/\ q.phase = "done"
     /\ q.st.tried = << "grpc", "http" >>
     /\ q.st.transport = "http"
     /\ ~q.broke
     /\ q.script = << >>
     /\ Len(q.emitted) >= 3)
    => /\ Len(q.out) = Len(q.emitted)
       /\ \A i \in DOMAIN q.out :
            /\ q.out[i].src = "http"
            /\ q.out[i].ev = convertProtoEventToSSE(q.emitted[i])

\* C17 (as claimed): when the backend's stream breaks after the caller was
\* written a chunk and before end, the events written to the caller end with
\* an error event, the only one, and hold no end event.
C17_MidStreamFailureEndsWithError ==
    (/\ q.phase = "done"
     /\ q.broke
     /\ \E i \in DOMAIN q.out : q.out[i].ev.type = "chunk")
    => /\ OutTypes[Len(q.out)] = "error"
       /\ Cardinality({i \in DOMAIN q.out : OutTypes[i] = "error"}) = 1
       /\ \A i \in DOMAIN q.out : OutTypes[i] # "end"

\* C18: all events written to the caller for one Query call come from one
\* transport, the one the handler is streaming from.
C18_OneTransportPerCall ==
    \A i \in DOMAIN q.out :
        /\ q.out[i].src = q.st.transport
        /\ \A j \in DOMAIN q.out : q.out[j].src = q.out[i].src

\* C18 witness: a call served by the gRPC client from start to end while the
\* HTTP endpoint was reachable too; every event written came from gRPC.
C18_Witness ==
    /\ q.phase = "done"
    /\ q.st.transport = "grpc"
    /\ httpUp
    /\ OutTypes = << "start", "chunk", "end" >>
    /\ \A i \in DOMAIN q.out : q.out[i].src = "grpc"

\* C19 (as claimed): every valid Query call that comes in while the gRPC
\* endpoint is reachable tries the gRPC client first, whatever failed before.
C19_PrimaryTriedFirstWhenReachable ==
    (q.phase # "idle" /\ q.st.valid /\ q.grpcWasUp)
    => (q.st.tried # << >> /\ q.st.tried[1] = "grpc")

\* C20: a Query call for which every transport tried failed to connect is
\* answered with one JSON error response, 500 INTERNAL_ERROR; no event-stream
\* header and no event is written and nothing is streamed.
C20_BothFailIsOneSynchronousError ==
    (q.st.tried # << >> /\ \A i \in DOMAIN q.st.errs : q.st.errs[i])
    => /\ q.phase = "done"
       /\ q.st.code = 500
       /\ q.st.err = "INTERNAL_ERROR"
       /\ q.st.responses = 1
       /\ ~q.st.header
       /\ q.out = << >>
       /\ q.chan = << >>

\* C20 witness: the gRPC stream could not be opened, the HTTP call failed
\* too, and the caller got the 500.
C20_Witness ==
    /\ q.st.tried = << "grpc", "http" >>
    /\ q.st.errs = << TRUE, TRUE >>
    /\ q.st.code = 500
    /\ q.st.responses = 1

\* C21 (as claimed): when the backend's stream of a query has ended without
\* breaking, the caller has been written one event per fragment the backend
\* sent, in the backend's order, each of the fragment's kind.
C21_StreamDeliversFragmentsInOrder ==
    (q.phase = "done" /\ ~q.broke)
    => /\ Len(q.out) = Len(q.emitted)
       /\ \A i \in DOMAIN q.out :
            q.emitted[i].kind \in Recognised => OutTypes[i] = q.emitted[i].kind

\* C22 (as claimed): on the HTTP transport, while the body is being read
\* without a read error, the events sent on the query's channel (those
\* already written to the caller followed by those still queued) are exactly
\* the JSON events of the frames received, one per frame, in order.
C22_EveryFrameYieldsOneEvent ==
    (q.st.transport = "http" /\ q.phase = "streaming" /\ ~q.broke)
    => [i \in DOMAIN q.out |-> q.out[i].ev] \o q.chan
       = [i \in DOMAIN q.emitted |-> WireEvent(q.emitted[i])]

\* C23 (as claimed): a fragment of a kind the proxy does not recognise is
\* not dropped.  When the stream of a query has ended without breaking, the
\* caller has been written as many events as the backend sent fragments, and
\* the event at the place of an unrecognised fragment is of the catch-all
\* kind.
C23_UnrecognisedFragmentIsDelivered ==
    (q.phase = "done" /\ ~q.broke
     /\ \E i \in DOMAIN q.emitted : q.emitted[i].kind \notin Recognised)
    => /\ Len(q.out) = Len(q.emitted)
       /\ \A i \in DOMAIN q.emitted :
            q.emitted[i].kind \notin Recognised => OutTypes[i] = "unknown"

\* C24 (as claimed): once the caller of a streaming query has gone away, the
\* forwarding task stops reading the backend's stream: it receives at most
\* the one fragment whose send shows the disconnection, not the rest of the
\* stream.
C24_DisconnectStopsForwarding ==
    q.gone => Len(q.emitted) <= q.goneAt + 1

\* C25 (as claimed): what the gateway holds of a query between the backend
\* and the caller is bounded whatever the length of the backend's answer: the
\* channel holds at most ChanCap events, and the bytes received and not yet
\* turned into an event are at most those of the frame being read.
C25_HeldDataIsBounded ==
    /\ Len(q.chan) <= ChanCap
    /\ \A i \in DOMAIN q.emitted :
         Len(q.buffer) <= Len(Frame(WireEvent(q.emitted[i])))

\* C26 (as claimed): the top_k every client has put in its request to the
\* backend for a valid Query is 5 when the request's top_k is absent or 0,
\* and the request's top_k otherwise.
C26_TopKDefaultsToFiveElseUnchanged ==
    q.st.valid
    => \A i \in DOMAIN q.st.forwarded :
         q.st.forwarded[i] = IF q.asked = GoInt(0, 0) THEN GoInt(0, 5) ELSE q.asked

\* The row of the table with the id.
RowOf(table, id) == CHOOSE r \in table : r.id = id

\* The ids of the rows of the table.
Ids(table) == {r.id : r \in table}

\* C27: a step adds at most one message; the conversation C of a message
\* added has, in the state in which the message first exists, a message_count
\* one higher than before and updated_at = now; and a CreateMessage that adds
\* no message to C leaves C's row as it was.
C27_AppendIncrementsCountAtomically ==
    [][LET added == messages' \ messages
       IN  /\ Cardinality(added) <= 1
           /\ \A m \in added : m.conversation_id \in Ids(conversations)
           /\ \A c \in conversations :
                IF \E m \in added : m.conversation_id = c.id
                THEN RowOf(conversations', c.id)
                     = [c EXCEPT !.message_count = @ + 1, !.updated_at = clock]
                ELSE convLast'.op = "CreateMessage" => c \in conversations']_vars

\* C27 witness: a message has just been appended to a conversation created
\* at an earlier time; its count is up and its updated_at has moved.
C27_Witness ==
    /\ convLast.op = "CreateMessage" /\ ~convLast.err
    /\ \E c \in conversations :
         /\ c.id = convLast.id
         /\ c.message_count = 1
         /\ c.updated_at > c.created_at
         /\ \E m \in messages : m.conversation_id = c.id

\* C28 (as claimed): no step lowers a conversation's message_count, and a
\* step that changes it raises it by one and adds a message to the
\* conversation.
C28_MessageCountNeverDecreases ==
    [][\A c \in conversations :
         LET after == RowOf(conversations', c.id).message_count
         IN  /\ after >= c.message_count
             /\ after # c.message_count
                => /\ after = c.message_count + 1
                   /\ \E m \in messages' \ messages : m.conversation_id = c.id]_vars

\* C29: a CreateMessage naming a conversation id that no row of
\* conversations has returns an error and leaves both tables as they were.
C29_UnknownConversationRejected ==
    [][(convLast'.op = "CreateMessage" /\ convLast'.id \notin Ids(conversations))
       => /\ convLast'.err
          /\ messages' = messages
          /\ conversations' = conversations]_vars

\* C29 witness: on the schema with the trigger, with a conversation and a
\* message in the store, a CreateMessage naming a missing conversation has
\* failed.
C29_Witness ==
    /\ schema = "trigger"
    /\ convLast.op = "CreateMessage" /\ convLast.err
    /\ convLast.id \notin Ids(conversations)
    /\ conversations # {} /\ messages # {}

\* C30: a list request that succeeded returned rows of the table asked for
\* (for messages: of the conversation named only), in the order asked for
\* (messages by ascending created_at, conversations by descending
\* created_at), and they are the rows at the places offset + 1 .. offset +
\* limit of such an order of all of them, where limit is the parameter when
\* it is a number in 1..100 and 50 otherwise, and offset is the parameter
\* when it is a number >= 0 and 0 otherwise.
C30_ListsAreOrderedPages ==
    LET ofMessages == convLast.op = "GetConversationMessages"
        all == IF ofMessages
               THEN {m \in messages : m.conversation_id = convLast.id}
               ELSE conversations
        limit == IF convLast.limitStr.kind = "number" /\ convLast.limitStr.n \in 1..100
                 THEN convLast.limitStr.n ELSE 50
        offset == IF convLast.offsetStr.kind = "number" /\ convLast.offsetStr.n >= 0
                  THEN convLast.offsetStr.n ELSE 0
        rows == convLast.rows
    IN  (convLast.op \in {"GetConversationMessages", "ListConversations"}
         /\ ~convLast.err)
        => /\ Len(rows) <= limit
           /\ \E s \in [1..Cardinality(all) -> all] :
                /\ \A i, j \in DOMAIN s : i # j => s[i] # s[j]
                /\ \A i, j \in DOMAIN s :
                     i < j => IF ofMessages
                              THEN s[i].created_at <= s[j].created_at
                              ELSE s[i].created_at >= s[j].created_at
                /\ Len(rows) = IF Len(s) - offset < 0 THEN 0
                               ELSE IF Len(s) - offset < limit THEN Len(s) - offset
                               ELSE limit
                /\ \A i \in DOMAIN rows : rows[i] = s[offset + i]

\* C30 witness: with limit=1 and offset=1 the list of a conversation holding
\* two messages of different times is the later message alone.
C30_Witness ==
    /\ convLast.op = "GetConversationMessages" /\ ~convLast.err
    /\ convLast.limitStr = Param("number", 1)
    /\ convLast.offsetStr = Param("number", 1)
    /\ \E m, n \in messages :
         /\ m.conversation_id = convLast.id /\ n.conversation_id = convLast.id
         /\ m.created_at < n.created_at
         /\ convLast.rows = << n >>

\* C31: an UploadDocument answered VALIDATION_ERROR made no collaborator call
\* and left the Record Store and the Workflow Engine as they were, and a
\* Query answered VALIDATION_ERROR called the backend on no transport and
\* opened no stream.
C31_ValidationErrorHasNoSideEffect ==
    [][/\ (last'.op = "UploadDocument" /\ last'.err = "VALIDATION_ERROR")
          => /\ last'.calls = << >>
             /\ docs' = docs /\ wf' = wf /\ startCount' = startCount
       /\ q'.st.err = "VALIDATION_ERROR"
          => /\ q'.st.tried = << >> /\ q'.st.forwarded = << >>
             /\ q'.st.transport = "none" /\ ~q'.st.header
             /\ q'.script = << >> /\ q'.emitted = << >> /\ q'.chan = << >>]_vars

\* C31 witness: with a document in the store, an upload without a file and
\* a query without the query text have both been answered 400.
C31_Witness ==
    /\ last.op = "UploadDocument" /\ last.code = 400
    /\ last.err = "VALIDATION_ERROR"
    /\ \E d \in DocIds : docs[d] # NoDoc
    /\ q.phase = "done" /\ q.st.code = 400 /\ q.st.err = "VALIDATION_ERROR"
    /\ ~q.st.valid

\* C32: a lookup returns an error exactly when the store failed while serving
\* it.  GetDocument of an id with no row, the store working, returns no
\* document and no error and the handler answers 404 NOT_FOUND; the handler
\* answers 500 INTERNAL_ERROR only when the lookup returned an error.
\* GetConversation of an id with no row, the store working, returns no row
\* and no error, and of an id with a row that row.
C32_MissingRowIsEmptyResultNotError ==
    /\ last.op = "GetDocument"
       => /\ last.calls[1].err = last.fault
          /\ last.code = 500 <=> last.fault
          /\ (last.before = "absent" /\ ~last.fault)
             => last.code = 404 /\ last.err = "NOT_FOUND"
          /\ (last.before # "absent" /\ ~last.fault) => last.code = 200
    /\ convLast.op = "GetConversation"
       => /\ convLast.err = convLast.fault
          /\ (convLast.id \notin Ids(conversations) /\ ~convLast.fault)
             => convLast.rows = << >>
          /\ (convLast.id \in Ids(conversations) /\ ~convLast.fault)
             => convLast.rows = << RowOf(conversations, convLast.id) >>

\* C32 witness: with a document and a conversation in the store, a document
\* and a conversation that have no row have been looked up; the first was
\* answered 404 and the second returned nothing, without an error.
C32_Witness ==
    /\ \E d \in DocIds : docs[d] # NoDoc
    /\ conversations # {}
    /\ last.op = "GetDocument" /\ last.before = "absent" /\ ~last.fault
    /\ last.code = 404 /\ ~last.calls[1].err
    /\ convLast.op = "GetConversation" /\ ~convLast.fault /\ ~convLast.err
    /\ convLast.id \notin Ids(conversations) /\ convLast.rows = << >>

\* C33: in a step that removes the row of a document, the request is a
\* DeleteDocument of that id, and its call of Repository.DeleteDocument comes
\* after a DeleteObject call with the storage key the row held (when it held
\* one) and after a DeleteDocumentVectors call for the id; no call of
\* Repository.DeleteDocument is made before these.
C33_RowRemovedAfterObjectAndVectors ==
    [][\A d \in DocIds :
         (docs[d] # NoDoc /\ docs'[d] = NoDoc)
         => /\ last'.op = "DeleteDocument" /\ last'.id = d
            /\ \A i \in CallsOf(last'.calls, "DeleteDocument") :
                 /\ docs[d].s3_key # NoKey
                    => \E a \in 1..(i - 1) :
                         last'.calls[a] = Call("s3", "DeleteObject", docs[d].s3_key,
                                               last'.calls[a].err)
                 /\ \E b \in 1..(i - 1) :
                         /\ last'.calls[b].fn = "DeleteDocumentVectors"
                         /\ last'.calls[b].arg = d]_vars

\* C33 witness: a DeleteDocument has removed a row after its object
\* deletion and its vector deletion were tried and both failed.
C33_Witness ==
    /\ last.op = "DeleteDocument" /\ last.code = 204
    /\ last.before # "absent" /\ docs[last.id] = NoDoc
    /\ Len(last.calls) = 4
    /\ last.calls[2].fn = "DeleteObject" /\ last.calls[2].err
    /\ last.calls[3].fn = "DeleteDocumentVectors" /\ last.calls[3].err
    /\ last.calls[4].fn = "DeleteDocument" /\ ~last.calls[4].err

\* C34: a DeleteDocument whose lookup of the row failed answers 500
\* INTERNAL_ERROR, makes no call after the lookup (no DeleteObject, no
\* DeleteDocumentVectors, no Repository.DeleteDocument) and leaves the
\* documents table as it was.
C34_FailedLookupDeletesNothing ==
    [][(/\ last'.op = "DeleteDocument"
        /\ last'.calls # << >>
        /\ last'.calls[1].err)
       => /\ last'.code = 500 /\ last'.err = "INTERNAL_ERROR"
          /\ last'.calls = << Call("repository", "GetDocument", last'.id, TRUE) >>
          /\ docs' = docs]_vars

\* C34 witness: the lookup of a DeleteDocument for a stored document failed
\* and the row is still there.
C34_Witness ==
    /\ last.op = "DeleteDocument" /\ last.code = 500
    /\ last.calls = << Call("repository", "GetDocument", last.id, TRUE) >>
    /\ docs[last.id] # NoDoc /\ docs[last.id].s3_key # NoKey

\* C35: a CompleteUpload request leaves table documents as it was, also when
\* it answers with status "indexing"; and a request handler changes the row
\* of an id only by creating it with status "pending" (UploadDocument) or by
\* removing it (DeleteDocument), so no handler writes another status.
C35_CompleteUploadWritesNoRow ==
    [][/\ last'.op = "CompleteUpload" => docs' = docs
       /\ \A d \in DocIds :
            docs'[d] # docs[d]
            => \/ /\ docs[d] = NoDoc
                  /\ docs'[d].status = "pending"
                  /\ last'.op = "UploadDocument"
               \/ /\ docs'[d] = NoDoc
                  /\ last'.op = "DeleteDocument"]_vars

\* C35 witness: a CompleteUpload answered 200 with status "indexing" for a
\* document whose row still says "pending".
C35_Witness ==
    /\ last.op = "CompleteUpload" /\ last.code = 200
    /\ last.body.status = "indexing"
    /\ last.before = "pending" /\ last.after = "pending"
    /\ docs[last.id] # NoDoc /\ docs[last.id].status = "pending"

\* C36: a step in which an upload workflow is started for an id is an
\* UploadDocument of that id whose calls are, in this order, a successful
\* GeneratePresignedUploadURL for the storage key, a successful
\* CreateDocument of the pending row with that id and key, and the
\* StartUploadWorkflow with that id and key; the row with that key is in
\* table documents when the step ends.
C36_WorkflowStartedAfterRowWritten ==
    [][\A d \in DocIds :
         startCount'[d] # startCount[d]
         => /\ last'.op = "UploadDocument" /\ last'.id = d
            /\ Len(last'.calls) = 3
            /\ LET url == last'.calls[1]
                   row == last'.calls[2]
                   start == last'.calls[3]
               IN  /\ url.fn = "GeneratePresignedUploadURL" /\ ~url.err
                   /\ row.fn = "CreateDocument" /\ ~row.err
                   /\ row.arg.id = d /\ row.arg.row.s3_key = url.arg
                   /\ row.arg.row.status = "pending"
                   /\ start.fn = "StartUploadWorkflow"
                   /\ start.arg = UploadWorkflowInput(d, url.arg)
                   /\ docs'[d] # NoDoc /\ docs'[d].s3_key = url.arg]_vars

\* C36 witness: an UploadDocument has started the upload workflow of its
\* document, whose pending row is stored under the key the workflow was given.
C36_Witness ==
    /\ last.op = "UploadDocument" /\ last.code = 200
    /\ Len(last.calls) = 3
    /\ last.calls[3].fn = "StartUploadWorkflow" /\ ~last.calls[3].err
    /\ docs[last.id] # NoDoc
    /\ docs[last.id].s3_key = last.calls[3].arg.S3Key
    /\ Instance(wf, last.id) = "running"

\* C37: while the server serves requests the Temporal client and the Qdrant
\* client of the handlers are open, and no request handler makes a call on
\* one of them that has been closed.
C37_NoCallOnClosedClient ==
    [][/\ server'.phase = "serving"
          => ~(server'.temporalClosed \/ server'.qdrantClosed)
       /\ server' = server
          => \A i \in DOMAIN last'.calls :
               /\ last'.calls[i].svc = "temporal" => ~server.temporalClosed
               /\ last'.calls[i].svc = "qdrant" => ~server.qdrantClosed]_vars

\* C38: the channel of a query is closed only in a step in which the backend
\* stream ends (nothing is left to deliver, or reading failed); once closed
\* it stays closed and nothing more is sent on it; and after the close the
\* handler's loop over the channel comes to its end.
C38_ChannelClosedOnceAtStreamEnd ==
    /\ [][/\ (~q.closed /\ q'.closed)
             => /\ q.phase = "streaming" /\ q'.phase = "streaming"
                /\ q.script = << >> \/ q'.broke
          /\ (q.closed /\ q.phase = "streaming")
             => /\ q'.closed
                /\ q'.emitted = q.emitted
                /\ q'.chan = q.chan \/ q'.chan = Tail(q.chan)]_vars
    /\ (q.phase = "streaming" /\ q.closed) ~> (q.phase = "done")

\* C38 witness: the stream of a query has ended after the backend delivered
\* all its fragments, the channel was closed with events still in it, and
\* the handler has drained it and returned.
C38_Witness ==
    /\ q.phase = "done" /\ q.closed /\ ~q.broke
    /\ q.st.transport = "grpc"
    /\ q.script = << >> /\ q.chan = << >>
    /\ Len(q.emitted) >= 3 /\ Len(q.out) = Len(q.emitted)

\* The events the gateway can make of the backend's answer to caller c's
\* call, and the error event of the HTTP forwarding goroutine.
Produced(c) ==
    {convertProtoEventToSSE(conc.call[c].answer[i]) : i \in DOMAIN conc.call[c].answer}
    \cup {WireEvent(conc.call[c].answer[i]) : i \in DOMAIN conc.call[c].answer}
    \cup {SSEEvent("error", "", 0, "STREAM_ERROR")}

\* C39: every event written to a caller was made of the backend's answer to
\* that caller's own call, and written in the order of that answer; a
\* forwarding goroutine with a fragment to send waits only when the channel
\* of its own call is full; and a step of one call changes neither another
\* call nor another call's channel.
C39_ConcurrentQueriesAreIsolated ==
    /\ [](\A c \in Callers :
           LET r == conc.call[c] IN
           /\ \A i \in DOMAIN r.out : r.out[i] \in Produced(c)
           /\ r.transport = "grpc"
              => /\ Len(r.out) <= r.received
                 /\ \A i \in DOMAIN r.out :
                      r.out[i] = convertProtoEventToSSE(r.answer[i])
           /\ (/\ r.phase = "streaming" /\ ~r.closed /\ r.script # << >>
               /\ r.transport = "grpc"
               /\ Len(conc.chan[c]) < ChanCap)
              => ENABLED ConcForward(c))
    /\ [][\A c, d \in Callers :
            (c # d /\ conc'.call[c] # conc.call[c])
            => /\ conc'.call[d] = conc.call[d]
               /\ conc'.chan[d] = conc.chan[d]]_vars

\* C39 witness: caller a is slow, the channel of its call is full and its
\* goroutine waits with fragments still to send, while caller b's call has
\* meanwhile delivered the whole of its own answer and returned.
C39_Witness ==
    /\ conc.call["a"].phase = "streaming" /\ conc.call["a"].slow
    /\ Len(conc.chan["a"]) = ChanCap /\ conc.call["a"].script # << >>
    /\ conc.call["b"].phase = "done" /\ conc.call["b"].transport = "grpc"
    /\ Len(conc.call["b"].out) = Len(conc.call["b"].answer)
    /\ Len(conc.call["b"].out) >= 3

====
